---- MODULE Spec2Model ----
(***************************************************************************)
(* A model of the search-and-scoring engine of stock_analysis:             *)
(*   - GeneticStrategy.evolve (experimental_algorithms/genetic_strategy.py)*)
(*   - StrategyOptimizer / MultiObjectiveOptimizer (strategies/            *)
(*     optimization.py) and the older StrategyOptimizer                    *)
(*     (strategies/strategy_optimizer.py), driving an optuna study.        *)
(*   - BaseStrategy.calculate_metrics (strategies/base_strategy.py) and    *)
(*     the metric registry and profit factor of strategies/metrics.py.     *)
(*   - Order (models/trade.py).                                            *)
(*   - Stock and its persistence (models/stock.py, models/database.py).    *)
(* SpecGA is the genetic loop, SpecSelect one call of evolve on            *)
(* populations large enough for tournaments, SpecOpt the trial-based       *)
(* optimizers, SpecMetrics the metric computation, SpecOrder the life of   *)
(* an order, SpecStock the saving and loading of a stock, SpecRoundTrip    *)
(* the same without the price provider.                                    *)
(***************************************************************************)
EXTENDS Integers, Sequences, FiniteSets

(***************************************************************************)
(* Bounds of the model.                                                    *)
(***************************************************************************)
MaxPop == 3
MaxGen == 2
MaxGene == 4
MaxTrials == 2
MaxParam == 2
MaxScore == 1
MaxObjectives == 2
MaxMetrics == 2
MaxTrades == 2
MaxReturn == 1
MaxUpdates == 3
MaxPrice == 2
MaxQuantity == 1
MaxHistory == 2
MaxTime == 2
MaxMillis == 1
MaxSaves == 2
MaxSelectPop == 4
MaxGivenPop == 1
MaxGivenSize == 2
MaxSetCalls == 1
MaxChildren == 2

\* An individual is an integer x; the candidates lie around the optimum x = 3.
Genes == 2..MaxGene

\* The values a caller hands to set_parameters for population_size,
\* generations and elite_size, for the population, for
\* fitness_history (a list of means, each kept as <<sum, n>>) and for
\* best_individual.
GivenSizes == 1..MaxGivenSize
GivenPopulations == UNION {[1..n -> Genes] : n \in 0..MaxGivenPop}
GivenHistories == {<<<<1, 2>>>>}
GivenBest == {<<MaxGene>>}

VARIABLES
    \* ---- GeneticStrategy fields (genetic_strategy.py:27-35) ----
    strategy_class,  \* the class of the object, which decides its hooks
    population_size, generations, elite_size,
    population, best_individual, fitness_history,
    \* ---- locals of evolve / select_parents ----
    generation, fitness_scores, sorted_indices, new_population, parents, child,
    ga_pc,
    ga_failure,      \* the exception that left evolve
    \* ---- history variable: every individual scored by line 75 so far ----
    evaluated,
    \* ---- history variables of one generation ----
    tournament,      \* the population indices line 55 drew last
    fitness_calls,   \* evaluate_fitness invocations since line 75 began
    aliases,         \* per entry of new_population: the index of the member
                     \* of population it is (the same object), 0 if it is new
    child_alias,     \* the same for child
    \* ---- history variables of the calls made on the object ----
    entry_history,   \* fitness_history as evolve found it at line 71
    entry_best,      \* best_individual as evolve found it at line 71
    set_calls,       \* set_parameters calls made since evolve returned
    \* ---- the trial-based optimizers ----
    opt_kind,        \* which class is constructed
    arg_objectives,  \* the objective name(s) given to the constructor
    arg_direction,   \* the direction given to optimize
    n_trials,        \* the trial budget
    objective_name,  \* self.objective_name / self.optimization_metric
    objectives,      \* self.objectives (MultiObjectiveOptimizer)
    directions,      \* the directions of the optuna study
    trials,          \* the trials the study has recorded
    trial_params,    \* the parameters of the trial being evaluated
    instances,       \* how many strategy instances have been constructed
    trial_log,       \* what the trial being evaluated did so far, in order,
                     \* each step with the strategy instance it was done on
    failure,         \* the step whose exception left optimize
    result,          \* what optimize returned
    opt_pc,
    \* ---- BaseStrategy.calculate_metrics and the profit factor ----
    data_loaded,          \* self.data is not None
    data_columns,         \* self.data.columns
    trade_returns,        \* self.data['trade_returns'], when present
    returns_column,       \* self.data['returns'], when present
    metrics_arg,          \* the metrics_list argument: <<>> is None
    metrics_list,         \* the list the loop of line 42 iterates over
    metric_idx,           \* how many of its names the loop has passed
    performance_metrics,  \* self.performance_metrics
    metrics_returned,     \* the dict calculate_metrics returned, if it did
    profit_factor_df,     \* result of calculate_profit_factor(self.data)
    profit_factor_series, \* result of Metrics.calculate_profit_factor
    calculated,           \* <<name, value>> of the latest direct call of a
                          \* registry calculation function
    mt_error,             \* the exception that left calculate_metrics
    mt_pc,
    \* ---- Order (trade.py:51-60) ----
    status, filled_at, filled_price, filled_quantity,
    now,             \* the clock datetime.now() reads
    created_status,  \* the status the order was constructed with
    update_args,     \* the arguments of the latest update_status call
    update_count,    \* how many update_status calls were made
    \* ---- Stock and the store behind db_manager ----
    db_stocks,       \* the rows of table stocks, by id
    db_prices,       \* the rows of table stock_prices, by rowid
    stock_args,      \* the arguments of Stock(...)
    stock,           \* the Stock instance, <<>> before construction
    loaded_stock,    \* a second instance, Stock(symbol, load_from_db=True)
    save_count,      \* how many save_to_db calls have returned
    consecutive_saves, \* how many of them since the history last changed
    stk_error,       \* the exception that left save_to_db
    stk_pc

ga_vars == <<strategy_class, population_size, generations, elite_size,
             population,
             best_individual, fitness_history, generation, fitness_scores,
             sorted_indices, new_population, parents, child, ga_pc, ga_failure,
             evaluated, tournament, fitness_calls, aliases, child_alias,
             entry_history, entry_best, set_calls>>

opt_vars == <<opt_kind, arg_objectives, arg_direction, n_trials, objective_name,
              objectives, directions, trials, trial_params, instances,
              trial_log, failure, result, opt_pc>>

mt_vars == <<data_loaded, data_columns, trade_returns, returns_column,
             metrics_arg, metrics_list, metric_idx, performance_metrics,
             metrics_returned, profit_factor_df, profit_factor_series,
             calculated, mt_error, mt_pc>>

ord_vars == <<status, filled_at, filled_price, filled_quantity, now,
              created_status, update_args, update_count>>

stk_vars == <<db_stocks, db_prices, stock_args, stock, loaded_stock, save_count,
              consecutive_saves, stk_error, stk_pc>>

vars == <<ga_vars, opt_vars, mt_vars, ord_vars, stk_vars>>

(***************************************************************************)
(* Helpers.                                                                *)
(***************************************************************************)
Range(s) == {s[i] : i \in DOMAIN s}

RECURSIVE SeqSum(_)
SeqSum(s) == IF s = <<>> THEN 0 ELSE Head(s) + SeqSum(Tail(s))

Reverse(s) == [i \in 1..Len(s) |-> s[Len(s) + 1 - i]]

\* Injective sequences of length k over the set S (ordered samples without
\* replacement).
Samples(S, k) == {t \in [1..k -> S] : \A i, j \in 1..k : i # j => t[i] # t[j]}

(***************************************************************************)
(* The hooks are those of the object's class.  BaseStrategy declares       *)
(* run_strategy and plot_strategy abstract (base_strategy.py:16-24).       *)
(* GeneticStrategy defines run_strategy (lines 128-134) but not            *)
(* plot_strategy, and neither does MyGeneticStrategy (lines 152-167):      *)
(* GeneticStrategy(...) and MyGeneticStrategy(...) raise TypeError and no  *)
(* object of either class exists.  An object is of a further subclass that *)
(* defines plot_strategy:                                                  *)
(*   - "MyGeneticStrategy+plot_strategy" subclasses MyGeneticStrategy and  *)
(*     adds plot_strategy only; it inherits the four hooks of lines        *)
(*     153-167, which are `pass` and return None;                          *)
(*   - "ScoringStrategy" subclasses GeneticStrategy, defines plot_strategy *)
(*     and implements the hooks; its evaluate_fitness is the deterministic *)
(*     objective -(x-3)^2 of the end-to-end scenario, an individual being  *)
(*     the integer x.  A hook it leaves to GeneticStrategy raises          *)
(*     NotImplementedError (lines 41-47 and 61-67).                        *)
(***************************************************************************)
StrategyClasses == {"MyGeneticStrategy+plot_strategy", "ScoringStrategy"}

\* The class inherits the `pass` hooks of MyGeneticStrategy (lines 153-167).
InheritsPassHooks(cls) == cls = "MyGeneticStrategy+plot_strategy"

\* The objective of the end-to-end scenario; it is never positive.
Objective(x) == 0 - ((x - 3) * (x - 3))

\* Python's None among the fitness values: a value no Objective(x) equals.
None == 1

\* Lines 45-47 and 157-159: what evaluate_fitness of class cls returns.
evaluate_fitness(cls, x) ==
    IF InheritsPassHooks(cls) THEN None ELSE Objective(x)

\* np.argmax: index of the first occurrence of the maximum.
ArgMax(scores) ==
    CHOOSE i \in DOMAIN scores :
        /\ \A j \in DOMAIN scores : scores[j] <= scores[i]
        /\ \A j \in DOMAIN scores : j < i => scores[j] < scores[i]

\* np.mean of a list of n numbers, kept exact as the pair <<sum, n>>.
Mean(scores) == <<SeqSum(scores), Len(scores)>>

\* np.argsort(scores): a permutation of the indices that puts the scores in
\* ascending order.  The default kind ("quicksort") is not stable, so the
\* order among equal scores is whatever the build produces.
ArgSorts(scores) ==
    {p \in Samples(DOMAIN scores, Len(scores)) :
        \A i \in 1..(Len(scores) - 1) : scores[p[i]] <= scores[p[i + 1]]}

\* A variant of max that takes the first contestant.
TournamentWinnerFirst(t) == t[1]

\* max(tournament, key=fitness): the first contestant of maximal fitness.
TournamentWinner(t) ==
    t[ArgMax([i \in DOMAIN t |-> evaluate_fitness(strategy_class, t[i])])]

TournamentSize == 3

\* Line 54: range(2), one tournament per parent slot.
NumParents == 2

\* A variant of line 79 that takes the generation's best unconditionally.
ReplacesBestAlways(score, best) == TRUE

\* Line 79: whether the generation's best replaces best_individual.
ReplacesBest(score, best) ==
    \/ best = <<>>
    \/ score > evaluate_fitness(strategy_class, best[1])

\* Line 79: how many times the comparison invokes evaluate_fitness.
BestCalls(best) == IF best = <<>> THEN 0 ELSE 1

\* A variant of line 83 that keeps only the latest mean.
RecordMeanOverwrite(history, scores) == <<Mean(scores)>>

\* Line 83: fitness_history.append(np.mean(fitness_scores)).
RecordMean(history, scores) == Append(history, Mean(scores))

\* Line 89: argsort, reversed.
SortedIndices(scores) == {Reverse(p) : p \in ArgSorts(scores)}

\* A variant of line 94 that is off by one.
FillMoreInclusive(np, size) == Len(np) <= size

\* Line 94: the guard of the fill loop.
FillMore(np, size) == Len(np) < size

(***************************************************************************)
(* GeneticStrategy.__init__ (lines 17-35), run by the constructor of an     *)
(* instantiable subclass: the state after construction.  Nothing is        *)
(* validated; elite_size may exceed population_size.  The configurations   *)
(* examined breed at most MaxChildren children per generation.             *)
(***************************************************************************)
GAInit ==
    /\ strategy_class \in StrategyClasses
    /\ population_size \in 0..MaxPop
    /\ generations \in 0..MaxGen
    /\ elite_size \in 0..(population_size + 1)
    /\ population_size - elite_size <= MaxChildren
    /\ population = <<>>
    /\ best_individual = <<>>
    /\ fitness_history = <<>>
    /\ generation = 0
    /\ fitness_scores = <<>>
    /\ sorted_indices = <<>>
    /\ new_population = <<>>
    /\ parents = <<>>
    /\ child = <<>>
    /\ ga_pc = "constructed"
    /\ ga_failure = "none"
    /\ evaluated = {}
    /\ tournament = <<>>
    /\ fitness_calls = 0
    /\ aliases = <<>>
    /\ child_alias = 0
    /\ entry_history = <<>>
    /\ entry_best = <<>>
    /\ set_calls = 0

(***************************************************************************)
(* The configurations under which tournament selection is examined: one    *)
(* generation, all members but one kept as elites, so that one child is    *)
(* bred from a population large enough for a tournament to leave members   *)
(* out.                                                                    *)
(***************************************************************************)
SelectInit ==
    /\ strategy_class = "ScoringStrategy"
    /\ population_size \in 1..MaxSelectPop
    /\ generations = 1
    /\ elite_size = population_size - 1
    /\ population = <<>>
    /\ best_individual = <<>>
    /\ fitness_history = <<>>
    /\ generation = 0
    /\ fitness_scores = <<>>
    /\ sorted_indices = <<>>
    /\ new_population = <<>>
    /\ parents = <<>>
    /\ child = <<>>
    /\ ga_pc = "constructed"
    /\ ga_failure = "none"
    /\ evaluated = {}
    /\ tournament = <<>>
    /\ fitness_calls = 0
    /\ aliases = <<>>
    /\ child_alias = 0
    /\ entry_history = <<>>
    /\ entry_best = <<>>
    /\ set_calls = 0

\* Line 71: evolve begins by calling initialize_population, a hook.  A
\* subclass that implements it fills the population with population_size
\* random individuals, or leaves the population as it is; the one of
\* MyGeneticStrategy (lines 153-155), inherited, is `pass` and leaves the
\* population as it is; the one of GeneticStrategy (lines 41-43), when the
\* subclass does not override it, raises NotImplementedError, which leaves
\* evolve.
initialize_population ==
    /\ ga_pc = "constructed"
    /\ \/ /\ ~InheritsPassHooks(strategy_class)
          /\ \E p \in [1..population_size -> Genes] : population' = p
          /\ ga_pc' = "loop"
          /\ UNCHANGED ga_failure
       \/ /\ ga_pc' = "loop"
          /\ UNCHANGED <<population, ga_failure>>
       \/ /\ ~InheritsPassHooks(strategy_class)
          /\ ga_pc' = "raised"
          /\ ga_failure' = "initialize"
          /\ UNCHANGED population
    /\ entry_history' = fitness_history
    /\ entry_best' = best_individual
    /\ UNCHANGED <<strategy_class, population_size, generations,
                   elite_size, best_individual,
                   fitness_history, generation, fitness_scores, sorted_indices,
                   new_population, parents, child, evaluated, tournament,
                   fitness_calls, aliases, child_alias, set_calls>>

\* Lines 73-83: score the population, track the best, append the mean.
\* np.argmax raises ValueError on an empty list.  evaluate_fitness is called
\* with no try around it: an exception of the hook at line 75 leaves evolve
\* before anything is assigned, one at line 79 (the re-evaluation of the best
\* so far) after fitness_scores is.  Line 75 invokes evaluate_fitness once per
\* member; line 79 invokes it once more, on best_individual, unless that is
\* None (the `or` short-circuits).  The members whose call returned before
\* the exception have been scored.  A hook that returns None (the one
\* inherited from MyGeneticStrategy) makes the scores a list of None:
\* np.argmax compares its entries and raises TypeError on two or more of
\* them; on a single one it returns 0, so that line 79 raises TypeError on
\* `None > None` when there is a best so far and line 80 assigns
\* best_individual when there is none, after which np.mean raises TypeError
\* at line 83 before the append.  An object with such a hook never gets past
\* line 83.
evolve_evaluate ==
    /\ ga_pc = "loop"
    /\ generation < generations
    /\ LET scores == [i \in DOMAIN population |->
                          evaluate_fitness(strategy_class, population[i])]
       IN \/ /\ scores = <<>>
             /\ ga_pc' = "raised"
             /\ ga_failure' = "empty"
             /\ fitness_scores' = scores
             /\ fitness_calls' = 0
             /\ UNCHANGED <<best_individual, fitness_history, evaluated>>
          \/ /\ scores # <<>>
             /\ ~InheritsPassHooks(strategy_class)
             /\ ga_pc' = "raised"
             /\ ga_failure' = "fitness"
             /\ \/ /\ UNCHANGED fitness_scores
                   /\ \E n \in 1..Len(scores) :
                         /\ fitness_calls' = n
                         /\ evaluated' = evaluated \cup
                               {population[i] : i \in 1..(n - 1)}
                \/ /\ best_individual # <<>>
                   /\ fitness_scores' = scores
                   /\ fitness_calls' = Len(scores) + 1
                   /\ evaluated' = evaluated \cup Range(population)
             /\ UNCHANGED <<best_individual, fitness_history>>
          \/ /\ scores # <<>>
             /\ \E i \in DOMAIN scores : scores[i] = None
             /\ ga_pc' = "raised"
             /\ ga_failure' = "type"
             /\ fitness_scores' = scores
             /\ evaluated' = evaluated \cup Range(population)
             /\ IF Len(scores) > 1
                THEN /\ fitness_calls' = Len(scores)
                     /\ UNCHANGED best_individual
                ELSE IF best_individual = <<>>
                THEN /\ best_individual' = <<population[1]>>
                     /\ fitness_calls' = 1
                ELSE /\ fitness_calls' = 2
                     /\ UNCHANGED best_individual
             /\ UNCHANGED fitness_history
          \/ /\ scores # <<>>
             /\ \A i \in DOMAIN scores : scores[i] # None
             /\ LET best_idx == ArgMax(scores)
                IN /\ fitness_scores' = scores
                   /\ best_individual' =
                         IF ReplacesBest(scores[best_idx], best_individual)
                         THEN <<population[best_idx]>>
                         ELSE best_individual
                   /\ fitness_history' = RecordMean(fitness_history, scores)
                   /\ evaluated' = evaluated \cup Range(population)
                   /\ fitness_calls' = Len(scores) + BestCalls(best_individual)
                   /\ ga_pc' = "evaluated"
                   /\ UNCHANGED ga_failure
    /\ UNCHANGED <<strategy_class, population_size, generations,
                   elite_size, population,
                   generation, sorted_indices, new_population, parents, child,
                   tournament, aliases, child_alias,
                   entry_history, entry_best, set_calls>>

\* Lines 86-91: elitism.  Indexing past the end of sorted_indices raises
\* IndexError.  What is appended is population[sorted_indices[i]], the member
\* itself.
evolve_elitism ==
    /\ ga_pc = "evaluated"
    /\ \E si \in SortedIndices(fitness_scores) :
        /\ sorted_indices' = si
        /\ IF elite_size > Len(si)
           THEN /\ ga_pc' = "raised"
                /\ ga_failure' = "index"
                /\ new_population' = [i \in 1..Len(si) |-> population[si[i]]]
                /\ aliases' = [i \in 1..Len(si) |-> si[i]]
           ELSE /\ ga_pc' = "fill"
                /\ UNCHANGED ga_failure
                /\ new_population' = [i \in 1..elite_size |-> population[si[i]]]
                /\ aliases' = [i \in 1..elite_size |-> si[i]]
    /\ UNCHANGED <<strategy_class, population_size, generations,
                   elite_size, population,
                   best_individual, fitness_history, generation, fitness_scores,
                   parents, child, evaluated, tournament, fitness_calls,
                   child_alias,
                   entry_history, entry_best, set_calls>>

\* Lines 95-97 and 49-59: the crossover branch calls select_parents.  Each of
\* its two iterations draws a tournament of 3 by random.sample (an ordered
\* sample without replacement, which raises ValueError when the population
\* has fewer than 3 members) and appends the winner to parents.  The key of
\* max is evaluate_fitness, invoked once per contestant, whose exception
\* leaves evolve as well, the tournament having been drawn.
select_parents ==
    /\ \/ ga_pc = "fill" /\ FillMore(new_population, population_size)
       \/ ga_pc = "select"
    /\ IF Len(population) < TournamentSize
       THEN /\ ga_pc' = "raised"
            /\ ga_failure' = "sample"
            /\ UNCHANGED <<parents, tournament, fitness_calls>>
       ELSE \/ /\ \E t \in Samples(DOMAIN population, TournamentSize) :
                    /\ parents' = Append(parents,
                          TournamentWinner([i \in 1..TournamentSize |-> population[t[i]]]))
                    /\ tournament' = t
               /\ fitness_calls' = fitness_calls + TournamentSize
               /\ ga_pc' = IF Len(parents) + 1 < NumParents THEN "select" ELSE "crossover"
               /\ UNCHANGED ga_failure
            \/ /\ ga_pc' = "raised"
               /\ ga_failure' = "fitness"
               /\ \E t \in Samples(DOMAIN population, TournamentSize) :
                     tournament' = t
               /\ \E n \in 1..TournamentSize : fitness_calls' = fitness_calls + n
               /\ UNCHANGED parents
    /\ UNCHANGED <<strategy_class, population_size, generations,
                   elite_size, population,
                   best_individual, fitness_history, generation, fitness_scores,
                   sorted_indices, new_population, child, evaluated, aliases,
                   child_alias,
                   entry_history, entry_best, set_calls>>

\* Line 98: crossover (a hook) returns some individual, a new one, or raises
\* (NotImplementedError in GeneticStrategy itself, lines 61-63).
crossover ==
    /\ ga_pc = "crossover"
    /\ \/ /\ \E c \in Genes : child' = <<c>>
          /\ child_alias' = 0
          /\ parents' = <<>>
          /\ tournament' = <<>>
          /\ ga_pc' = "mutation"
          /\ UNCHANGED ga_failure
       \/ /\ ga_pc' = "raised"
          /\ ga_failure' = "crossover"
          /\ UNCHANGED <<child, child_alias, parents, tournament>>
    /\ UNCHANGED <<strategy_class, population_size, generations,
                   elite_size, population,
                   best_individual, fitness_history, generation, fitness_scores,
                   sorted_indices, new_population, evaluated,
                   fitness_calls, aliases,
                   entry_history, entry_best, set_calls>>

\* Lines 99-101: the clone branch takes a random member of the population:
\* random.choice returns the member itself, not a copy.
evolve_clone ==
    /\ ga_pc = "fill"
    /\ FillMore(new_population, population_size)
    /\ population # <<>>
    /\ \E i \in DOMAIN population :
          /\ child' = <<population[i]>>
          /\ child_alias' = i
    /\ ga_pc' = "mutation"
    /\ UNCHANGED <<strategy_class, population_size, generations,
                   elite_size, population,
                   best_individual, fitness_history, generation, fitness_scores,
                   sorted_indices, new_population, parents, evaluated, ga_failure,
                   tournament, fitness_calls, aliases,
                   entry_history, entry_best, set_calls>>

\* Lines 103-107: mutate (a hook) with probability mutation_rate, then append.
\* mutate is handed child as it is and its return value, a new individual,
\* takes its place; its exception (NotImplementedError in GeneticStrategy
\* itself, lines 65-67) leaves evolve before anything is appended.
evolve_append ==
    /\ ga_pc = "mutation"
    /\ \/ /\ \/ /\ \E m \in Genes : new_population' = Append(new_population, m)
                /\ aliases' = Append(aliases, 0)
             \/ /\ new_population' = Append(new_population, child[1])
                /\ aliases' = Append(aliases, child_alias)
          /\ child' = <<>>
          /\ child_alias' = 0
          /\ ga_pc' = "fill"
          /\ UNCHANGED ga_failure
       \/ /\ ga_pc' = "raised"
          /\ ga_failure' = "mutate"
          /\ UNCHANGED <<new_population, aliases, child, child_alias>>
    /\ UNCHANGED <<strategy_class, population_size, generations,
                   elite_size, population,
                   best_individual, fitness_history, generation, fitness_scores,
                   sorted_indices, parents, evaluated, tournament,
                   fitness_calls,
                   entry_history, entry_best, set_calls>>

\* Line 109: the fill loop has ended; the new population replaces the old.
evolve_replace ==
    /\ ga_pc = "fill"
    /\ ~FillMore(new_population, population_size)
    /\ population' = new_population
    /\ generation' = generation + 1
    /\ ga_pc' = "loop"
    \* the locals of the finished iteration are dead: each is reassigned
    \* before its next use, and the history of the generation starts anew
    /\ fitness_scores' = <<>>
    /\ sorted_indices' = <<>>
    /\ new_population' = <<>>
    /\ fitness_calls' = 0
    /\ aliases' = <<>>
    /\ UNCHANGED <<strategy_class, population_size, generations,
                   elite_size, best_individual,
                   fitness_history, parents, child, evaluated, ga_failure,
                   tournament, child_alias,
                   entry_history, entry_best, set_calls>>

\* Line 73: range(self.generations) is exhausted; evolve returns.
evolve_return ==
    /\ ga_pc = "loop"
    /\ generation >= generations
    /\ ga_pc' = "terminated"
    /\ UNCHANGED <<strategy_class, population_size, generations,
                   elite_size, population,
                   best_individual, fitness_history, generation, fitness_scores,
                   sorted_indices, new_population, parents, child, evaluated,
                   ga_failure, tournament, fitness_calls, aliases, child_alias,
                   entry_history, entry_best, set_calls>>

\* A dict entry of a call: <<>> when the dict has no such key, <<v>> when it
\* maps the key to v.
Given(S) == {<<>>} \cup {<<v>> : v \in S}

\* Lines 148-150: setattr(self, key, value) for a key of the dict.
SetAttr(old, given) == IF given = <<>> THEN old ELSE given[1]

\* Lines 146-150: set_parameters, a public method, assigns every attribute of
\* the object that the dict names and validates nothing.  Apart from the
\* three sizes the dict may name the population, fitness_history and
\* best_individual.  The caller calls it between two uses of the object:
\* before evolve, or after evolve has returned.
set_parameters ==
    /\ ga_pc \in {"constructed", "terminated"}
    /\ set_calls < MaxSetCalls
    /\ \E ps \in Given(GivenSizes), g \in Given(GivenSizes),
          e \in Given(GivenSizes), p \in Given(GivenPopulations),
          h \in Given(GivenHistories), b \in Given(GivenBest) :
          /\ population_size' = SetAttr(population_size, ps)
          /\ generations' = SetAttr(generations, g)
          /\ elite_size' = SetAttr(elite_size, e)
          /\ population' = SetAttr(population, p)
          /\ fitness_history' = SetAttr(fitness_history, h)
          /\ best_individual' = SetAttr(best_individual, b)
    /\ set_calls' = IF ga_pc = "terminated" THEN set_calls + 1 ELSE set_calls
    /\ UNCHANGED <<strategy_class, generation, fitness_scores, sorted_indices,
                   new_population, parents, child, ga_pc, ga_failure, evaluated, tournament,
                   fitness_calls, aliases, child_alias, entry_history,
                   entry_best>>



(***************************************************************************)
(* The trial-based optimizers.                                             *)
(***************************************************************************)

\* Objective values: finite scores and the two infinities, ordered by Less.
NegInf == <<0 - 1, 0>>
PosInf == <<1, 0>>
Fin(v) == <<0, v>>
Less(a, b) == a[1] < b[1] \/ (a[1] = b[1] /\ a[2] < b[2])

Scores == {Fin(v) : v \in 0..MaxScore}
Params == 1..MaxParam

\* metrics.py:210-235, the objective catalog.
OPTIMIZATION_OBJECTIVES ==
    [ sharpe_ratio  |-> [higher_is_better |-> TRUE,  metric_name |-> "sharpe_ratio"],
      sortino_ratio |-> [higher_is_better |-> TRUE,  metric_name |-> "sortino_ratio"],
      max_drawdown  |-> [higher_is_better |-> FALSE, metric_name |-> "max_drawdown"],
      profit_factor |-> [higher_is_better |-> TRUE,  metric_name |-> "profit_factor"] ]

\* The names tried as constructor arguments: two catalog entries of opposite
\* polarity and one name that is a metric but no objective.
ObjectiveNames == {"sharpe_ratio", "max_drawdown", "win_rate"}

RECURSIVE SeqsUpTo(_, _)
SeqsUpTo(S, n) ==
    IF n = 0 THEN {<<>>}
    ELSE LET shorter == SeqsUpTo(S, n - 1)
         IN shorter \cup {Append(q, x) : q \in shorter, x \in S}

\* A variant of optimization.py:85-87 that validates the first name only.
MultiObjectivesAcceptedFirstOnly(objs) ==
    objs # <<>> /\ objs[1] \in DOMAIN OPTIMIZATION_OBJECTIVES

\* optimization.py:82-89: the checks of MultiObjectiveOptimizer.__init__ and
\* of the StrategyOptimizer.__init__ it calls with objectives[0].
MultiObjectivesAccepted(objs) ==
    /\ objs # <<>>
    /\ \A i \in DOMAIN objs : objs[i] \in DOMAIN OPTIMIZATION_OBJECTIVES
    /\ objs[1] \in DOMAIN OPTIMIZATION_OBJECTIVES

\* optimization.py:13: the check of StrategyOptimizer.__init__.
ObjectiveAccepted(name) == name \in DOMAIN OPTIMIZATION_OBJECTIVES

\* A variant of optimization.py:114-115 that maximizes every objective.
MultiDirectionsAllMaximize(objs) == [i \in DOMAIN objs |-> "maximize"]

\* optimization.py:114-115: one direction per objective, from its polarity.
MultiDirections(objs) ==
    [i \in DOMAIN objs |->
        IF OPTIMIZATION_OBJECTIVES[objs[i]].higher_is_better
        THEN "maximize" ELSE "minimize"]

\* optimization.py:49 and 104: the score of a trial whose run failed.
RunFailedValues(kind, objs) ==
    IF kind = "multi" THEN [i \in DOMAIN objs |-> NegInf] ELSE <<NegInf>>

\* dict.get(name, float('-inf')) on the metrics calculate_metrics returned.
MetricsGet(metrics, name) ==
    IF name \in DOMAIN metrics THEN metrics[name] ELSE NegInf

\* The metrics a strategy may return for the names asked: a finite score for
\* some or all of them.
MetricsDicts(names) == UNION {[S -> Scores] : S \in SUBSET names}

\* A variant of optimization.py:110 that lists the values backwards.
ObjectiveValuesReversed(kind, name, objs, metrics) ==
    IF kind = "multi"
    THEN [k \in DOMAIN objs |-> MetricsGet(metrics, objs[Len(objs) + 1 - k])]
    ELSE <<MetricsGet(metrics, name)>>

\* optimization.py:60 and 110, strategy_optimizer.py:53: what objective
\* returns after a run that succeeded.
ObjectiveValues(kind, name, objs, metrics) ==
    IF kind = "multi"
    THEN [k \in DOMAIN objs |-> MetricsGet(metrics, objs[k])]
    ELSE <<MetricsGet(metrics, name)>>

\* Whether value a is better than value b under direction dir.
Better(a, b, dir) == IF dir = "maximize" THEN Less(b, a) ELSE Less(a, b)

\* study.best_trial of a single-objective study: the trial of best value, the
\* earliest one among equals (a later trial replaces the best so far only if
\* it is strictly better).
BestTrial(ts, dir) ==
    CHOOSE i \in DOMAIN ts :
        /\ \A j \in DOMAIN ts : ~Better(ts[j].values[1], ts[i].values[1], dir)
        /\ \A j \in DOMAIN ts : j < i => Better(ts[i].values[1], ts[j].values[1], dir)

NoResult == [returned |-> "nothing", best_trial |-> 0, best_params |-> <<>>,
             best_value |-> <<>>, metrics_from |-> <<>>]

\* The optimizer before its constructor has run.  The older class
\* (strategy_optimizer.py) takes n_trials at construction and always
\* maximizes; MultiObjectiveOptimizer.optimize takes no direction.
OptInit ==
    /\ opt_kind \in {"single", "multi", "legacy"}
    /\ arg_objectives \in IF opt_kind = "multi"
                          THEN SeqsUpTo(ObjectiveNames, MaxObjectives)
                          ELSE {<<n>> : n \in ObjectiveNames}
    /\ arg_direction \in IF opt_kind = "single"
                         THEN {"maximize", "minimize"} ELSE {"maximize"}
    /\ n_trials \in 0..MaxTrials
    /\ objective_name = ""
    /\ objectives = <<>>
    /\ directions = <<>>
    /\ trials = <<>>
    /\ trial_params = <<>>
    /\ instances = 0
    /\ trial_log = <<>>
    /\ failure = "none"
    /\ result = NoResult
    /\ opt_pc = "new"

\* The optimizer is not used.
OptIdle ==
    /\ opt_kind = "none"
    /\ arg_objectives = <<>>
    /\ arg_direction = "maximize"
    /\ n_trials = 0
    /\ objective_name = ""
    /\ objectives = <<>>
    /\ directions = <<>>
    /\ trials = <<>>
    /\ trial_params = <<>>
    /\ instances = 0
    /\ trial_log = <<>>
    /\ failure = "none"
    /\ result = NoResult
    /\ opt_pc = "idle"

\* The genetic optimizer is not used.
GAIdle ==
    /\ strategy_class = "ScoringStrategy"
    /\ population_size = 0
    /\ generations = 0
    /\ elite_size = 0
    /\ population = <<>>
    /\ best_individual = <<>>
    /\ fitness_history = <<>>
    /\ generation = 0
    /\ fitness_scores = <<>>
    /\ sorted_indices = <<>>
    /\ new_population = <<>>
    /\ parents = <<>>
    /\ child = <<>>
    /\ ga_pc = "idle"
    /\ ga_failure = "none"
    /\ evaluated = {}
    /\ tournament = <<>>
    /\ fitness_calls = 0
    /\ aliases = <<>>
    /\ child_alias = 0
    /\ entry_history = <<>>
    /\ entry_best = <<>>
    /\ set_calls = 0

\* optimization.py:8-17 and 81-90, strategy_optimizer.py:9-24: __init__.
\* The older class validates nothing.
construct ==
    /\ opt_pc = "new"
    /\ IF \/ opt_kind = "single" /\ ~ObjectiveAccepted(arg_objectives[1])
          \/ opt_kind = "multi" /\ ~MultiObjectivesAccepted(arg_objectives)
       THEN /\ opt_pc' = "ctor_raised"
            /\ failure' = "config"
            /\ UNCHANGED <<objective_name, objectives>>
       ELSE /\ opt_pc' = "constructed"
            /\ objective_name' = arg_objectives[1]
            /\ objectives' = IF opt_kind = "multi" THEN arg_objectives ELSE <<>>
            /\ UNCHANGED failure
    /\ UNCHANGED <<opt_kind, arg_objectives, arg_direction, n_trials, directions,
                   trials, trial_params, instances, trial_log, result>>

\* optimization.py:65, 114-116, strategy_optimizer.py:58-61: optimize creates
\* the study.  No direction is checked against the objective's polarity.
optimize_create_study ==
    /\ opt_pc = "constructed"
    /\ directions' = CASE opt_kind = "single" -> <<arg_direction>>
                       [] opt_kind = "multi" -> MultiDirections(objectives)
                       [] opt_kind = "legacy" -> <<"maximize">>
    /\ opt_pc' = "study"
    /\ UNCHANGED <<opt_kind, arg_objectives, arg_direction, n_trials,
                   objective_name, objectives, trials, trial_params, instances,
                   trial_log, failure, result>>

\* optimization.py:40-42 (with 21-35), 95-97, strategy_optimizer.py:29-49: the
\* steps of a trial before the run, the strategy being instance number
\* `first`.  optimization.py constructs the strategy (line 40), then
\* create_trial_params constructs a second instance (line 21) and samples the
\* parameters from the bounds of that one (lines 22-33), then the strategy
\* receives set_parameters (line 42).  strategy_optimizer.py reads the bounds
\* of the strategy itself (line 32).
SetupSteps(kind, first) ==
    IF kind = "legacy"
    THEN << <<"construct", first>>, <<"sample", first>>,
            <<"set_parameters", first>> >>
    ELSE << <<"construct", first>>, <<"construct", first + 1>>,
            <<"sample", first + 1>>, <<"set_parameters", first>> >>

\* How many instances the steps of a log constructed.
Constructed(log) == Cardinality({i \in DOMAIN log : log[i][1] = "construct"})

\* The local `strategy` of objective: the instance constructed first.
TrialStrategy(log) == log[1][2]

\* A trial constructs its strategy, samples the parameters and sets them.  An
\* exception here (the constructor, get_optimization_bounds, an unknown
\* parameter type, set_parameters) is caught nowhere and leaves the trial
\* after the steps that were completed.
objective_setup ==
    /\ opt_pc = "study"
    /\ Len(trials) < n_trials
    /\ LET steps == SetupSteps(opt_kind, instances + 1)
       IN \/ /\ \E p \in Params : trial_params' = <<p>>
             /\ trial_log' = steps
             /\ instances' = instances + Constructed(steps)
             /\ opt_pc' = "run"
             /\ UNCHANGED failure
          \/ /\ \E n \in 0..(Len(steps) - 1) :
                   /\ trial_log' = SubSeq(steps, 1, n)
                   /\ instances' = instances + Constructed(SubSeq(steps, 1, n))
             /\ opt_pc' = "raised"
             /\ failure' = "setup"
             /\ UNCHANGED trial_params
    /\ UNCHANGED <<opt_kind, arg_objectives, arg_direction, n_trials,
                   objective_name, objectives, directions, trials, result>>

\* optimization.py:45-49, 100-104: run_strategy inside try/except; a failure
\* scores the trial with -inf.  strategy_optimizer.py:50: no try.
objective_run ==
    /\ opt_pc = "run"
    /\ LET ran == Append(trial_log, <<"run", TrialStrategy(trial_log)>>)
       IN \/ /\ opt_pc' = "score"
             /\ trial_log' = ran
             /\ UNCHANGED <<trials, trial_params, failure>>
          \/ /\ opt_kind \in {"single", "multi"}
             /\ trials' = Append(trials,
                   [params |-> trial_params[1],
                    values |-> RunFailedValues(opt_kind, objectives),
                    run_failed |-> TRUE,
                    metrics |-> <<>>,
                    log |-> ran])
             /\ trial_params' = <<>>
             /\ trial_log' = <<>>
             /\ opt_pc' = "study"
             /\ UNCHANGED failure
          \/ /\ opt_kind = "legacy"
             /\ opt_pc' = "raised"
             /\ failure' = "run"
             /\ trial_log' = ran
             /\ UNCHANGED <<trials, trial_params>>
    /\ UNCHANGED <<opt_kind, arg_objectives, arg_direction, n_trials,
                   objective_name, objectives, directions, instances, result>>

\* optimization.py:52-60, 107-110, strategy_optimizer.py:51-53:
\* calculate_metrics, on the strategy that was run, outside any try; its
\* exception leaves the study.  Otherwise each objective gets the score found
\* under its name in the metrics, -inf when the metrics have no such name;
\* strategy_optimizer.py subscripts the metrics and raises KeyError then.
objective_score ==
    /\ opt_pc = "score"
    /\ LET scored == Append(trial_log, <<"score", TrialStrategy(trial_log)>>)
           names == IF opt_kind = "multi" THEN Range(objectives)
                    ELSE {objective_name}
       IN \/ /\ \E m \in MetricsDicts(names) :
                  /\ (opt_kind = "legacy") => objective_name \in DOMAIN m
                  /\ trials' = Append(trials,
                       [params |-> trial_params[1],
                        values |-> ObjectiveValues(opt_kind, objective_name,
                                                   objectives, m),
                        run_failed |-> FALSE,
                        metrics |-> m,
                        log |-> scored])
             /\ trial_params' = <<>>
             /\ trial_log' = <<>>
             /\ opt_pc' = "study"
             /\ UNCHANGED failure
          \/ /\ opt_pc' = "raised"
             /\ failure' = "score"
             /\ trial_log' = scored
             /\ UNCHANGED <<trials, trial_params>>
    /\ UNCHANGED <<opt_kind, arg_objectives, arg_direction, n_trials,
                   objective_name, objectives, directions, instances, result>>

\* optimization.py:68, 119: the study is returned as it is.
optimize_return_study ==
    /\ opt_pc = "study"
    /\ opt_kind \in {"single", "multi"}
    /\ Len(trials) >= n_trials
    /\ result' = [NoResult EXCEPT !.returned = "study"]
    /\ opt_pc' = "returned"
    /\ UNCHANGED <<opt_kind, arg_objectives, arg_direction, n_trials,
                   objective_name, objectives, directions, trials, trial_params,
                   instances, trial_log, failure>>

\* strategy_optimizer.py:70-83: best_params (ValueError when the study has no
\* trial), then a fresh strategy is constructed (line 74), run with them and
\* its metrics returned.  An exception of the constructor leaves optimize
\* with no further instance; one of set_parameters, run_strategy or
\* calculate_metrics (lines 75-82) leaves it with the instance constructed.
optimize_return_best ==
    /\ opt_pc = "study"
    /\ opt_kind = "legacy"
    /\ Len(trials) >= n_trials
    /\ IF trials = <<>>
       THEN /\ opt_pc' = "raised"
            /\ failure' = "no_trials"
            /\ UNCHANGED <<instances, result>>
       ELSE LET b == BestTrial(trials, directions[1])
            IN \/ /\ instances' = instances + 1
                  /\ result' = [returned |-> "dict",
                                best_trial |-> b,
                                best_params |-> <<trials[b].params>>,
                                best_value |-> trials[b].values,
                                metrics_from |-> <<trials[b].params>>]
                  /\ opt_pc' = "returned"
                  /\ UNCHANGED failure
               \/ /\ \E constructed \in 0..1 :
                        instances' = instances + constructed
                  /\ opt_pc' = "raised"
                  /\ failure' = "rerun"
                  /\ UNCHANGED result
    /\ UNCHANGED <<opt_kind, arg_objectives, arg_direction, n_trials,
                   objective_name, objectives, directions, trials, trial_params,
                   trial_log>>

(***************************************************************************)
(* The metric registry, BaseStrategy.calculate_metrics and the profit      *)
(* factor.                                                                 *)
(***************************************************************************)

\* metrics.py:15-23: the attributes of a Metric.
MetricFields == {"name", "description", "category", "higher_is_better",
                 "requires_columns", "calculation_function"}

\* Whether reading metric.<attr> succeeds (it raises AttributeError otherwise).
HasAttr(attr) == attr \in MetricFields

\* A variant of the registry in which max_drawdown is marked higher-is-better.
AVAILABLE_METRICS_DrawdownHigher ==
    [ sharpe_ratio  |-> [higher_is_better |-> <<TRUE>>,
                         requires_columns |-> {"returns"}],
      sortino_ratio |-> [higher_is_better |-> <<TRUE>>,
                         requires_columns |-> {"returns"}],
      max_drawdown  |-> [higher_is_better |-> <<TRUE>>,
                         requires_columns |-> {"returns"}],
      win_rate      |-> [higher_is_better |-> <<TRUE>>,
                         requires_columns |-> {"trade_returns"}],
      profit_factor |-> [higher_is_better |-> <<TRUE>>,
                         requires_columns |-> {"trade_returns"}],
      average_trade |-> [higher_is_better |-> <<TRUE>>,
                         requires_columns |-> {"trade_returns"}],
      average_position_size |-> [higher_is_better |-> <<>>,
                                 requires_columns |-> {"position_size"}] ]

\* metrics.py:150-207, the metric registry.  higher_is_better is <<b>> for
\* the boolean b and <<>> for None.
AVAILABLE_METRICS ==
    [ sharpe_ratio  |-> [higher_is_better |-> <<TRUE>>,
                         requires_columns |-> {"returns"}],
      sortino_ratio |-> [higher_is_better |-> <<TRUE>>,
                         requires_columns |-> {"returns"}],
      max_drawdown  |-> [higher_is_better |-> <<FALSE>>,
                         requires_columns |-> {"returns"}],
      win_rate      |-> [higher_is_better |-> <<TRUE>>,
                         requires_columns |-> {"trade_returns"}],
      profit_factor |-> [higher_is_better |-> <<TRUE>>,
                         requires_columns |-> {"trade_returns"}],
      average_trade |-> [higher_is_better |-> <<TRUE>>,
                         requires_columns |-> {"trade_returns"}],
      average_position_size |-> [higher_is_better |-> <<>>,
                                 requires_columns |-> {"position_size"}] ]

\* list(AVAILABLE_METRICS.keys()): the keys in insertion order.
MetricKeys == <<"sharpe_ratio", "sortino_ratio", "max_drawdown", "win_rate",
                "profit_factor", "average_trade", "average_position_size">>

\* A finite quotient n/d, beside the infinities NegInf and PosInf.
Ratio(n, d) == <<0, n, d>>

\* series[series > 0].sum()
RECURSIVE SumPositive(_)
SumPositive(s) ==
    IF s = <<>> THEN 0
    ELSE (IF Head(s) > 0 THEN Head(s) ELSE 0) + SumPositive(Tail(s))

\* series[series < 0].sum()
RECURSIVE SumNegative(_)
SumNegative(s) ==
    IF s = <<>> THEN 0
    ELSE (IF Head(s) < 0 THEN Head(s) ELSE 0) + SumNegative(Tail(s))

Abs(x) == IF x < 0 THEN 0 - x ELSE x

\* metrics.py:129-135: calculate_profit_factor(df).
calculate_profit_factor(columns, series) ==
    IF "trade_returns" \notin columns \/ Len(series) = 0
    THEN Ratio(0, 1)
    ELSE LET gains == SumPositive(series)
             losses == Abs(SumNegative(series))
         IN IF losses # 0 THEN Ratio(gains, losses) ELSE PosInf

\* metrics.py:64-69: Metrics.calculate_profit_factor(returns).
Metrics_calculate_profit_factor(returns) ==
    LET gains == SumPositive(returns)
        losses == Abs(SumNegative(returns))
    IN IF losses # 0 THEN Ratio(gains, losses) ELSE PosInf

\* The value of 0.0 / 0.0 and of the statistics of too few values.
NaN == Ratio(0, 0)

\* The finite value sign * sqrt(n / d), sign in {-1, 1}.
Root(sign, n, d) == <<0, sign, n, d>>

RECURSIVE GCD(_, _)
GCD(a, b) == IF b = 0 THEN a ELSE GCD(b, a % b)

\* n / d in lowest terms, d > 0.
Reduced(n, d) == LET g == GCD(Abs(n), d) IN Ratio(n \div g, d \div g)

\* df[column]: the column's values (the frames here hold no NaN).
Column(df, column) == df[column]

\* (series > 0).sum()
RECURSIVE CountPositive(_)
CountPositive(s) ==
    IF s = <<>> THEN 0
    ELSE (IF Head(s) > 0 THEN 1 ELSE 0) + CountPositive(Tail(s))

\* series[series < 0]
Downside(s) == SelectSeq(s, LAMBDA x : x < 0)

\* n * sum(x^2) - sum(x)^2: n * (n - 1) times the sample variance
\* (Series.std has ddof = 1).
Spread(s) ==
    Len(s) * SeqSum([i \in DOMAIN s |-> s[i] * s[i]]) - SeqSum(s) * SeqSum(s)

\* np.sqrt(252) * returns.mean() / deviations.std(): floating-point division,
\* which yields inf or nan on a zero divisor and nan on the std of fewer than
\* two values.  mean^2 / var = sum^2 * m * (m - 1) / (n^2 * Spread).
Annualised(returns, deviations) ==
    LET total == SeqSum(returns)
        n == Len(returns)
        m == Len(deviations)
    IN IF m < 2 THEN NaN
       ELSE IF Spread(deviations) = 0
       THEN (IF total > 0 THEN PosInf ELSE IF total < 0 THEN NegInf ELSE NaN)
       ELSE IF total = 0 THEN Ratio(0, 1)
       ELSE Root(IF total > 0 THEN 1 ELSE 0 - 1,
                 252 * total * total * m * (m - 1),
                 n * n * Spread(deviations))

\* metrics.py:97-102: calculate_sharpe_ratio(df), df['returns'] present.
calculate_sharpe_ratio(df) ==
    LET returns == Column(df, "returns")
    IN IF Len(returns) < 2 THEN Ratio(0, 1)
       ELSE Annualised(returns, returns)

\* metrics.py:104-112: calculate_sortino_ratio(df), df['returns'] present.
calculate_sortino_ratio(df) ==
    LET returns == Column(df, "returns")
        downside_returns == Downside(returns)
    IN IF Len(returns) < 2 THEN Ratio(0, 1)
       ELSE IF Len(downside_returns) = 0 THEN PosInf
       ELSE Annualised(returns, downside_returns)

\* (1 + series).cumprod()
RECURSIVE CumProd(_)
CumProd(s) ==
    IF s = <<>> THEN <<>>
    ELSE LET front == CumProd(SubSeq(s, 1, Len(s) - 1))
             last == IF front = <<>> THEN 1 ELSE front[Len(front)]
         IN Append(front, last * (1 + s[Len(s)]))

\* series.expanding().max()
RollingMax(s) ==
    [i \in DOMAIN s |-> CHOOSE v \in {s[k] : k \in 1..i} :
                            \A k \in 1..i : s[k] <= v]

\* metrics.py:114-119: calculate_max_drawdown(df), df['returns'] present.
\* A drawdown is cumulative / rolling_max - 1 = (c - m) / m with c <= m: nan
\* on 0 / 0, -inf on c / 0 with c < 0; min() skips nan and is nan when there
\* is nothing else.
calculate_max_drawdown(df) ==
    LET cumulative_returns == CumProd(Column(df, "returns"))
        rolling_max == RollingMax(cumulative_returns)
        rows == DOMAIN cumulative_returns
        infinite == {i \in rows : rolling_max[i] = 0 /\ cumulative_returns[i] < 0}
        finite == {i \in rows : rolling_max[i] # 0}
        \* abs(drawdown) of a finite row, as <<numerator, denominator>>
        depth(i) == <<Abs(rolling_max[i] - cumulative_returns[i]),
                      Abs(rolling_max[i])>>
        \* drawdown of a finite row is below zero unless c / m > 1 (m < 0)
        sign(i) == IF rolling_max[i] > 0 THEN 0 - 1 ELSE 1
        lowest == CHOOSE i \in finite : \A k \in finite :
                      sign(i) * depth(i)[1] * depth(k)[2]
                          <= sign(k) * depth(k)[1] * depth(i)[2]
    IN IF infinite # {} THEN PosInf
       ELSE IF finite = {} THEN NaN
       ELSE Reduced(depth(lowest)[1], depth(lowest)[2])

\* metrics.py:121-127: calculate_win_rate(df).
calculate_win_rate(df) ==
    IF "trade_returns" \notin DOMAIN df \/ Len(Column(df, "trade_returns")) = 0
    THEN Ratio(0, 1)
    ELSE LET winning_trades == CountPositive(Column(df, "trade_returns"))
             total_trades == Len(Column(df, "trade_returns"))
         IN IF total_trades > 0 THEN Ratio(winning_trades, total_trades)
                                ELSE Ratio(0, 1)

\* metrics.py:137-141: calculate_average_trade(df).
calculate_average_trade(df) ==
    IF "trade_returns" \notin DOMAIN df \/ Len(Column(df, "trade_returns")) = 0
    THEN Ratio(0, 1)
    ELSE Ratio(SeqSum(Column(df, "trade_returns")),
               Len(Column(df, "trade_returns")))

\* metrics.py:143-147: calculate_average_position_size(df); the mean of no
\* value is nan.
calculate_average_position_size(df) ==
    IF "position_size" \notin DOMAIN df THEN Ratio(0, 1)
    ELSE LET sizes == Column(df, "position_size")
         IN IF Len(sizes) = 0 THEN NaN
            ELSE Ratio(SeqSum([i \in DOMAIN sizes |-> Abs(sizes[i])]),
                       Len(sizes))

\* Whether the calculation function of metric `name` raises on df: the three
\* functions that read df['returns'] without a check raise KeyError.
CalculationRaises(name, df) ==
    /\ name \in {"sharpe_ratio", "sortino_ratio", "max_drawdown"}
    /\ "returns" \notin DOMAIN df

\* metrics.py:150-207: what the calculation function of metric `name` returns
\* on df when it does not raise.
CalculationValue(name, df) ==
    CASE name = "sharpe_ratio" -> calculate_sharpe_ratio(df)
      [] name = "sortino_ratio" -> calculate_sortino_ratio(df)
      [] name = "max_drawdown" -> calculate_max_drawdown(df)
      [] name = "win_rate" -> calculate_win_rate(df)
      [] name = "profit_factor" ->
             calculate_profit_factor(DOMAIN df,
                 IF "trade_returns" \in DOMAIN df
                 THEN Column(df, "trade_returns") ELSE <<>>)
      [] name = "average_trade" -> calculate_average_trade(df)
      [] name = "average_position_size" -> calculate_average_position_size(df)

\* d[k] = v on a dict.
DictSet(d, k, v) == [n \in (DOMAIN d) \cup {k} |-> IF n = k THEN v ELSE d[n]]

EmptyDict == [n \in {} |-> <<>>]

\* The columns a frame may have before calculate_metrics is called, and the
\* names a caller may ask for ("volatility" is in no registry).
FrameColumns == {"Signal", "Close", "returns", "trade_returns"}
MetricNames == {"sharpe_ratio", "profit_factor", "volatility"}
Returns == (0 - MaxReturn)..MaxReturn

\* self.data as the calculation functions read it: the two return columns
\* hold the modelled series, and no function reads another column's values.
Frame ==
    [c \in data_columns |->
        CASE c = "trade_returns" -> trade_returns
          [] c = "returns" -> returns_column
          [] OTHER -> <<>>]

\* A strategy (after run_strategy or not) on which calculate_metrics, a
\* calculation function or the profit factor is about to be called.  The
\* columns of a frame have the same number of rows.
MetricsInit ==
    /\ data_loaded \in BOOLEAN
    /\ data_columns \in IF data_loaded THEN SUBSET FrameColumns ELSE {{}}
    /\ \E rows \in 0..MaxTrades :
          /\ trade_returns \in IF "trade_returns" \in data_columns
                               THEN [1..rows -> Returns] ELSE {<<>>}
          /\ returns_column \in IF "returns" \in data_columns
                                THEN [1..rows -> Returns] ELSE {<<>>}
    /\ metrics_arg \in {<<>>} \cup {<<l>> : l \in SeqsUpTo(MetricNames, MaxMetrics)}
    /\ metrics_list = <<>>
    /\ metric_idx = 0
    /\ performance_metrics = EmptyDict
    /\ metrics_returned = <<>>
    /\ profit_factor_df = <<>>
    /\ profit_factor_series = <<>>
    /\ calculated = <<>>
    /\ mt_error = "none"
    /\ mt_pc = "ready"

\* No strategy's metrics are computed.
MetricsIdle ==
    /\ data_loaded = FALSE
    /\ data_columns = {}
    /\ trade_returns = <<>>
    /\ returns_column = <<>>
    /\ metrics_arg = <<>>
    /\ metrics_list = <<>>
    /\ metric_idx = 0
    /\ performance_metrics = EmptyDict
    /\ metrics_returned = <<>>
    /\ profit_factor_df = <<>>
    /\ profit_factor_series = <<>>
    /\ calculated = <<>>
    /\ mt_error = "none"
    /\ mt_pc = "idle"

\* base_strategy.py:28-39: the checks and the derived columns before the loop.
\* self.data['Close'] raises KeyError when the frame has no such column.
calculate_metrics_begin ==
    /\ mt_pc = "ready"
    /\ IF ~data_loaded \/ "Signal" \notin data_columns
       THEN /\ mt_pc' = "raised"
            /\ mt_error' = "ValueError: not run"
            /\ UNCHANGED <<data_columns, metrics_list>>
       ELSE IF "Returns" \notin data_columns /\ "Close" \notin data_columns
       THEN /\ mt_pc' = "raised"
            /\ mt_error' = "KeyError: Close"
            /\ UNCHANGED <<data_columns, metrics_list>>
       ELSE /\ data_columns' = data_columns \cup {"Returns", "Strategy_Returns"}
            /\ metrics_list' = IF metrics_arg = <<>> THEN MetricKeys
                                                     ELSE metrics_arg[1]
            /\ mt_pc' = "loop"
            /\ UNCHANGED mt_error
    /\ UNCHANGED <<data_loaded, trade_returns, returns_column, metrics_arg,
                   metric_idx, performance_metrics, metrics_returned,
                   profit_factor_df, profit_factor_series, calculated>>

\* base_strategy.py:42-58: one pass of the loop over metrics_list.  Line 49
\* reads metric.requires and line 55 metric.function; reading an attribute a
\* Metric does not have raises AttributeError, which at line 55 is caught by
\* the except of line 56 and stores None.
calculate_metrics_step ==
    /\ mt_pc = "loop"
    /\ metric_idx < Len(metrics_list)
    /\ LET metric_name == metrics_list[metric_idx + 1]
       IN IF metric_name \notin DOMAIN AVAILABLE_METRICS
          THEN /\ mt_pc' = "raised"
               /\ mt_error' = "ValueError: unknown metric"
               /\ UNCHANGED <<metric_idx, performance_metrics>>
          ELSE IF ~HasAttr("requires")
          THEN /\ mt_pc' = "raised"
               /\ mt_error' = "AttributeError: requires"
               /\ UNCHANGED <<metric_idx, performance_metrics>>
          ELSE IF AVAILABLE_METRICS[metric_name].requires_columns
                      \ data_columns # {}
          THEN /\ mt_pc' = "raised"
               /\ mt_error' = "ValueError: missing columns"
               /\ UNCHANGED <<metric_idx, performance_metrics>>
          ELSE /\ performance_metrics' =
                     DictSet(performance_metrics, metric_name,
                             IF /\ HasAttr("function")
                                /\ ~CalculationRaises(metric_name, Frame)
                             THEN <<CalculationValue(metric_name, Frame)>>
                             ELSE <<>>)
               /\ metric_idx' = metric_idx + 1
               /\ UNCHANGED <<mt_pc, mt_error>>
    /\ UNCHANGED <<data_loaded, data_columns, trade_returns, returns_column,
                   metrics_arg, metrics_list, metrics_returned,
                   profit_factor_df, profit_factor_series, calculated>>

\* base_strategy.py:60: the loop is over; self.performance_metrics is returned.
calculate_metrics_return ==
    /\ mt_pc = "loop"
    /\ metric_idx >= Len(metrics_list)
    /\ metrics_returned' = <<performance_metrics>>
    /\ mt_pc' = "returned"
    /\ UNCHANGED <<data_loaded, data_columns, trade_returns, returns_column,
                   metrics_arg, metrics_list, metric_idx, performance_metrics,
                   profit_factor_df, profit_factor_series, calculated,
                   mt_error>>

\* The two profit-factor functions applied to the frame's per-trade returns:
\* calculate_profit_factor(self.data) of the registry and
\* Metrics.calculate_profit_factor(series).
profit_factor ==
    /\ mt_pc = "ready"
    /\ data_loaded
    /\ profit_factor_df' = <<calculate_profit_factor(data_columns, trade_returns)>>
    /\ profit_factor_series' = <<Metrics_calculate_profit_factor(trade_returns)>>
    /\ mt_pc' = "profit"
    /\ UNCHANGED <<data_loaded, data_columns, trade_returns, returns_column,
                   metrics_arg, metrics_list, metric_idx, performance_metrics,
                   metrics_returned, calculated, mt_error>>

\* metrics.py:97-147 through AVAILABLE_METRICS: a calculation function of the
\* registry called on self.data.  It returns its value or raises the KeyError
\* of df['returns'].
calculation_function ==
    /\ mt_pc = "ready"
    /\ data_loaded
    /\ \E name \in DOMAIN AVAILABLE_METRICS :
          IF CalculationRaises(name, Frame)
          THEN /\ mt_pc' = "calculation_raised"
               /\ mt_error' = "KeyError: returns"
               /\ UNCHANGED calculated
          ELSE /\ calculated' = <<name, CalculationValue(name, Frame)>>
               /\ mt_pc' = "calculated"
               /\ UNCHANGED mt_error
    /\ UNCHANGED <<data_loaded, data_columns, trade_returns, returns_column,
                   metrics_arg, metrics_list, metric_idx, performance_metrics,
                   metrics_returned, profit_factor_df, profit_factor_series>>

(***************************************************************************)
(* Order (models/trade.py).                                                *)
(***************************************************************************)

\* trade.py:19-25.
OrderStatus == {"PENDING", "FILLED", "CANCELLED", "REJECTED", "EXPIRED"}

\* Optional arguments: <<>> is None, <<v>> a value.
OptionalPrices == {<<>>} \cup {<<p>> : p \in 1..MaxPrice}
OptionalQuantities == {<<>>} \cup {<<q>> : q \in 0..MaxQuantity}

\* trade.py:62-65.
is_active == status = "PENDING"

\* A variant of line 70 that counts a rejected order as complete.
is_complete_with_rejected == status \in {"FILLED", "CANCELLED", "REJECTED"}

\* trade.py:67-70.
is_complete == status \in {"FILLED", "CANCELLED"}

\* A variant of the test of update_status that never records a fill.
RecordsFillNever(new_status) == FALSE

\* A variant of line 81 that records a fill for every status but PENDING.
RecordsFillUnlessPending(new_status) == new_status # "PENDING"

\* trade.py:81: whether update_status touches the fill information.
RecordsFill(new_status) == new_status = "FILLED"

\* Order(instruction, order_id, status, created_at): the fill fields take
\* their defaults (trade.py:58-60).
OrderInit ==
    /\ status \in OrderStatus
    /\ filled_at = <<>>
    /\ filled_price = <<>>
    /\ filled_quantity = 0
    /\ now = 0
    /\ created_status = status
    /\ update_args = <<>>
    /\ update_count = 0

\* No order exists.
OrderIdle ==
    /\ status = "none"
    /\ filled_at = <<>>
    /\ filled_price = <<>>
    /\ filled_quantity = 0
    /\ now = 0
    /\ created_status = "none"
    /\ update_args = <<>>
    /\ update_count = 0

\* trade.py:72-86: update_status(new_status, filled_price, filled_quantity).
\* No transition is refused.
update_status ==
    /\ update_count < MaxUpdates
    /\ now' = now + 1
    /\ \E new_status \in OrderStatus, price \in OptionalPrices,
          quantity \in OptionalQuantities :
         /\ status' = new_status
         /\ IF RecordsFill(new_status)
            THEN /\ filled_at' = <<now'>>
                 /\ filled_price' = IF price # <<>> THEN price ELSE filled_price
                 /\ filled_quantity' = IF quantity # <<>> THEN quantity[1]
                                                          ELSE filled_quantity
            ELSE UNCHANGED <<filled_at, filled_price, filled_quantity>>
         /\ update_args' = <<[new_status |-> new_status, filled_price |-> price,
                              filled_quantity |-> quantity]>>
    /\ update_count' = update_count + 1
    /\ UNCHANGED created_status

(***************************************************************************)
(* Stock (models/stock.py) and the store of models/database.py.  A price   *)
(* point is modelled by its timestamp, open and close; high, low, volume,  *)
(* nav and shares_outstanding travel the same way.  Prices are counted in  *)
(* thousandths.  Optional strings: <<>> is None, <<s>> the string s.       *)
(***************************************************************************)

Times == 1..MaxTime
PriceValues == 9..(9 + MaxMillis)

\* A timestamp is a datetime: its date and time fields, here the instant t,
\* and its tzinfo; a naive datetime has none.
Timestamps == {<<t, z>> : t \in Times, z \in {"naive", "UTC"}}

\* A price that SQLite receives as NULL: None, or Decimal('NaN'), which is
\* bound as the float nan.
Missing == 0

PricePoints == [timestamp : Timestamps, open : PriceValues \cup {Missing},
                close : PriceValues]

\* database.py:50: a DateTime column on SQLite.  The datetime is bound as the
\* text of its date and time fields, without its tzinfo: the row holds what
\* a naive datetime of the same fields leaves.
DateTimeBind(ts) == <<ts[1], "naive">>

\* database.py:50: a fetched text comes back as the naive datetime of its
\* date and time fields.
DateTimeResult(stored) == <<stored[1], "naive">>
Symbols == {"aapl", "AAPL"}
StockNames == {<<>>, <<"">>, <<"Apple Inc.">>}
Exchanges == {<<>>, <<"NASDAQ">>}

\* stock.py:76: symbol.upper().
Upper(s) == IF s = "aapl" THEN "AAPL" ELSE s

\* Python's `a or b` on optional strings: None and '' are falsy.
Or(a, b) == IF a # <<>> /\ a # <<"">> THEN a ELSE b

\* database.py:51-54: a Numeric(10, 2) column on SQLite.  The Decimal is bound
\* as a float, and a fetched float f comes back as Decimal("%.2f" % f): the
\* value rounded to hundredths.  At a half (5 thousandths) the direction
\* depends on the binary float nearest to the value.
NumericResults(v) ==
    LET q == v \div 10
        r == v % 10
    IN IF r < 5 THEN {10 * q}
       ELSE IF r > 5 THEN {10 * (q + 1)}
       ELSE {10 * q, 10 * (q + 1)}

\* The index in db_stocks of the row with this symbol, 0 when there is none
\* (stock.py:92-93; symbol is unique, database.py:29).
FindStock(stocks, symbol) ==
    IF \E i \in DOMAIN stocks : stocks[i].symbol = symbol
    THEN CHOOSE i \in DOMAIN stocks : stocks[i].symbol = symbol
    ELSE 0

\* db_stock.prices: the rows of the stock, in rowid order.
PricesOf(rows, id) == SelectSeq(rows, LAMBDA r : r.stock_id = id)

\* A variant of the delete of save_to_db with the filter inverted.
DeletePricesOther(rows, id) == SelectSeq(rows, LAMBDA r : r.stock_id = id)

\* stock.py:142-144: delete the stock's price rows.
DeletePrices(rows, id) == SelectSeq(rows, LAMBDA r : r.stock_id # id)

\* stock.py:147-148: one row per point of the history (to_db_model), as the
\* commit of line 150 binds it: the timestamp without its tzinfo.
RowsOf(history, id) ==
    [i \in DOMAIN history |->
        [stock_id |-> id, timestamp |-> DateTimeBind(history[i].timestamp),
         open |-> history[i].open, close |-> history[i].close]]

\* stock.py:102-114: the price history read back from the rows.
RECURSIVE LoadedHistories(_)
LoadedHistories(rows) ==
    IF rows = <<>> THEN {<<>>}
    ELSE {<<p>> \o rest :
            p \in {[timestamp |-> DateTimeResult(Head(rows).timestamp),
                     open |-> o, close |-> c] :
                      o \in NumericResults(Head(rows).open),
                      c \in NumericResults(Head(rows).close)},
            rest \in LoadedHistories(Tail(rows))}

\* stock.py:76-83: the fields __init__ sets before any load.
NewStock(symbol, name, exchange) ==
    [symbol |-> Upper(symbol), name |-> name, exchange |-> exchange,
     price_history |-> <<>>, db_id |-> 0]

\* stock.py:88-114: _load_from_db, the instances it may leave.
LoadFromDb(s, stocks, rows) ==
    LET i == FindStock(stocks, s.symbol)
    IN IF i = 0 THEN {s}
       ELSE {[s EXCEPT !.db_id = stocks[i].id,
                       !.name = Or(stocks[i].name, s.name),
                       !.exchange = Or(stocks[i].exchange, s.exchange),
                       !.price_history = h] :
                h \in LoadedHistories(PricesOf(rows, stocks[i].id))}

\* A store that holds a record of AAPL, saved by an earlier run.
EarlierStocks == <<[id |-> 1, symbol |-> "AAPL", name |-> <<"Apple">>,
                    exchange |-> <<>>]>>
EarlierPrices == <<[stock_id |-> 1, timestamp |-> <<1, "naive">>, open |-> 10,
                    close |-> 10]>>

\* Before Stock(...) is called: the store is empty or holds the earlier
\* record.
StockInit ==
    /\ \/ db_stocks = <<>> /\ db_prices = <<>>
       \/ db_stocks = EarlierStocks /\ db_prices = EarlierPrices
    /\ stock_args \in [symbol : Symbols, name : StockNames, exchange : Exchanges,
                       load_from_db : BOOLEAN]
    /\ stock = <<>>
    /\ loaded_stock = <<>>
    /\ save_count = 0
    /\ consecutive_saves = 0
    /\ stk_error = "none"
    /\ stk_pc = "new"

\* No stock is in use.
StockIdle ==
    /\ db_stocks = <<>>
    /\ db_prices = <<>>
    /\ stock_args = <<>>
    /\ stock = <<>>
    /\ loaded_stock = <<>>
    /\ save_count = 0
    /\ consecutive_saves = 0
    /\ stk_error = "none"
    /\ stk_pc = "idle"

\* stock.py:66-86: Stock.__init__, with _load_from_db when asked for.
Stock_init ==
    /\ stk_pc = "new"
    /\ LET s == NewStock(stock_args.symbol, stock_args.name, stock_args.exchange)
       IN \E l \in IF stock_args.load_from_db
                   THEN LoadFromDb(s, db_stocks, db_prices) ELSE {s} :
             stock' = <<l>>
    /\ stk_pc' = "constructed"
    /\ consecutive_saves' = 0
    /\ UNCHANGED <<db_stocks, db_prices, stock_args, loaded_stock, save_count,
                   stk_error>>

\* stock.py:291-293: add_price_data.
add_price_data ==
    /\ stk_pc \in {"constructed", "saved"}
    /\ Len(stock[1].price_history) < MaxHistory
    /\ \E p \in PricePoints :
         stock' = <<[stock[1] EXCEPT !.price_history = Append(@, p)]>>
    /\ stk_pc' = "constructed"
    /\ consecutive_saves' = 0
    /\ UNCHANGED <<db_stocks, db_prices, stock_args, loaded_stock, save_count,
                   stk_error>>

\* database.py:51-54: open, high, low and close are NOT NULL; whether a row
\* made from some point of the history violates that.
ViolatesNotNull(history) ==
    \E i \in DOMAIN history : history[i].open = Missing

\* stock.py:116-150: the body of save_to_db on the instance s, of which
\* `since` saves have returned since its history last changed.  Without a
\* _db_id a new stocks row is inserted, and the flush of line 130 raises
\* IntegrityError when the symbol is taken (unique, database.py:29); line
\* 131 then takes the id of the new row.  With a _db_id the row is updated
\* and the stock's price rows are deleted.  Then every point of the history
\* is inserted, and the commit of line 150 raises IntegrityError when a row
\* violates NOT NULL.  A session that ends by an exception is closed without
\* a commit: the store is as it was, while the _db_id assigned at line 131
\* stays on the instance.
Save(s, since) ==
    IF s.db_id = 0 /\ FindStock(db_stocks, s.symbol) # 0
    THEN /\ stk_pc' = "save_raised"
         /\ stk_error' = "IntegrityError"
         /\ stock' = <<s>>
         /\ consecutive_saves' = since
         /\ UNCHANGED <<db_stocks, db_prices, save_count>>
    ELSE LET id == IF s.db_id = 0 THEN Len(db_stocks) + 1 ELSE s.db_id
         IN IF ViolatesNotNull(s.price_history)
            THEN /\ stk_pc' = "save_raised"
                 /\ stk_error' = "IntegrityError"
                 /\ stock' = <<[s EXCEPT !.db_id = id]>>
                 /\ consecutive_saves' = since
                 /\ UNCHANGED <<db_stocks, db_prices, save_count>>
            ELSE /\ db_stocks' =
                       IF s.db_id = 0
                       THEN Append(db_stocks,
                               [id |-> id, symbol |-> s.symbol, name |-> s.name,
                                exchange |-> s.exchange])
                       ELSE [db_stocks EXCEPT ![id].name = s.name,
                                              ![id].exchange = s.exchange]
                 /\ db_prices' =
                       (IF s.db_id = 0 THEN db_prices
                        ELSE DeletePrices(db_prices, id))
                           \o RowsOf(s.price_history, id)
                 /\ stock' = <<[s EXCEPT !.db_id = id]>>
                 /\ save_count' = save_count + 1
                 /\ consecutive_saves' = since + 1
                 /\ stk_pc' = "saved"
                 /\ UNCHANGED stk_error

\* stock.py:116-150: save_to_db.
save_to_db ==
    /\ stk_pc \in {"constructed", "saved"}
    /\ save_count < MaxSaves
    /\ Save(stock[1], consecutive_saves)
    /\ UNCHANGED <<stock_args, loaded_stock>>

\* What ticker.info holds under 'longName' and 'exchange': <<>> when the key
\* is absent (info.get then keeps the field).
ProviderNames == {<<>>, <<"Apple Inc.">>}
ProviderExchanges == {<<>>, <<"NMS">>}

\* The rows ticker.history may return, at most n of them.  A price is the
\* decimal str() prints for the provider's float (Decimal(str(row['Open']))).
FetchedRows(n) == UNION {[1..k -> PricePoints] : k \in 0..n}

\* Python's `not a` on an optional string.
Falsy(a) == a \in {<<>>, <<"">>}

\* stock.py:173-176: the name and the exchange are both taken from
\* ticker.info when either is not set.
WithInfo(s, longName, exchange) ==
    IF Falsy(s.name) \/ Falsy(s.exchange)
    THEN [s EXCEPT !.name = IF longName = <<>> THEN @ ELSE longName,
                   !.exchange = IF exchange = <<>> THEN @ ELSE exchange]
    ELSE s

\* stock.py:152-203: fetch_data_from_yahoo(save_to_db=save).  An empty frame
\* returns at line 170 with nothing changed.  Otherwise the info is taken
\* over, every row is converted (int(row['Volume']) raises ValueError on a
\* missing volume, after lines 175-176 and before line 199), the history is
\* extended by all rows at once, and save_to_db runs when asked for.
fetch_data_from_yahoo ==
    /\ stk_pc \in {"constructed", "saved"}
    /\ \E rows \in FetchedRows(MaxHistory - Len(stock[1].price_history)),
          longName \in ProviderNames, exchange \in ProviderExchanges,
          save \in BOOLEAN, converted \in BOOLEAN :
         IF rows = <<>>
         THEN UNCHANGED <<db_stocks, db_prices, stock, save_count,
                          consecutive_saves, stk_error, stk_pc>>
         ELSE LET informed == WithInfo(stock[1], longName, exchange)
                  fetched == [informed EXCEPT !.price_history = @ \o rows]
              IN IF ~converted
                 THEN /\ stock' = <<informed>>
                      /\ stk_pc' = "fetch_raised"
                      /\ stk_error' = "ValueError"
                      /\ UNCHANGED <<db_stocks, db_prices, save_count,
                                     consecutive_saves>>
                 ELSE IF save
                 THEN /\ save_count < MaxSaves
                      /\ Save(fetched, 0)
                 ELSE /\ stock' = <<fetched>>
                      /\ stk_pc' = "constructed"
                      /\ consecutive_saves' = 0
                      /\ UNCHANGED <<db_stocks, db_prices, save_count,
                                     stk_error>>
    /\ UNCHANGED <<stock_args, loaded_stock>>

\* A new Stock(symbol, load_from_db=True) for the symbol just saved
\* (stock.py:66-114); name and exchange take their default None.
load_saved ==
    /\ stk_pc = "saved"
    /\ \E l \in LoadFromDb(NewStock(stock[1].symbol, <<>>, <<>>),
                           db_stocks, db_prices) :
         loaded_stock' = <<l>>
    /\ stk_pc' = "loaded"
    /\ UNCHANGED <<db_stocks, db_prices, stock_args, stock, save_count,
                   consecutive_saves, stk_error>>

GANext ==
    \/ initialize_population /\ UNCHANGED <<opt_vars, mt_vars, ord_vars, stk_vars>>
    \/ evolve_evaluate /\ UNCHANGED <<opt_vars, mt_vars, ord_vars, stk_vars>>
    \/ evolve_elitism /\ UNCHANGED <<opt_vars, mt_vars, ord_vars, stk_vars>>
    \/ select_parents /\ UNCHANGED <<opt_vars, mt_vars, ord_vars, stk_vars>>
    \/ crossover /\ UNCHANGED <<opt_vars, mt_vars, ord_vars, stk_vars>>
    \/ evolve_clone /\ UNCHANGED <<opt_vars, mt_vars, ord_vars, stk_vars>>
    \/ evolve_append /\ UNCHANGED <<opt_vars, mt_vars, ord_vars, stk_vars>>
    \/ evolve_replace /\ UNCHANGED <<opt_vars, mt_vars, ord_vars, stk_vars>>
    \/ evolve_return /\ UNCHANGED <<opt_vars, mt_vars, ord_vars, stk_vars>>
    \/ set_parameters /\ UNCHANGED <<opt_vars, mt_vars, ord_vars, stk_vars>>

OptNext ==
    \/ construct /\ UNCHANGED <<ga_vars, mt_vars, ord_vars, stk_vars>>
    \/ optimize_create_study /\ UNCHANGED <<ga_vars, mt_vars, ord_vars, stk_vars>>
    \/ objective_setup /\ UNCHANGED <<ga_vars, mt_vars, ord_vars, stk_vars>>
    \/ objective_run /\ UNCHANGED <<ga_vars, mt_vars, ord_vars, stk_vars>>
    \/ objective_score /\ UNCHANGED <<ga_vars, mt_vars, ord_vars, stk_vars>>
    \/ optimize_return_study /\ UNCHANGED <<ga_vars, mt_vars, ord_vars, stk_vars>>
    \/ optimize_return_best /\ UNCHANGED <<ga_vars, mt_vars, ord_vars, stk_vars>>

InitGA == GAInit /\ OptIdle /\ MetricsIdle /\ OrderIdle /\ StockIdle

SpecGA == InitGA /\ [][GANext]_vars

InitSelect == SelectInit /\ OptIdle /\ MetricsIdle /\ OrderIdle /\ StockIdle

\* Tournament selection is examined along one call of evolve (lines 69-109)
\* on the object as constructed.
SelectNext ==
    \/ initialize_population /\ UNCHANGED <<opt_vars, mt_vars, ord_vars, stk_vars>>
    \/ evolve_evaluate /\ UNCHANGED <<opt_vars, mt_vars, ord_vars, stk_vars>>
    \/ evolve_elitism /\ UNCHANGED <<opt_vars, mt_vars, ord_vars, stk_vars>>
    \/ select_parents /\ UNCHANGED <<opt_vars, mt_vars, ord_vars, stk_vars>>
    \/ crossover /\ UNCHANGED <<opt_vars, mt_vars, ord_vars, stk_vars>>
    \/ evolve_clone /\ UNCHANGED <<opt_vars, mt_vars, ord_vars, stk_vars>>
    \/ evolve_append /\ UNCHANGED <<opt_vars, mt_vars, ord_vars, stk_vars>>
    \/ evolve_replace /\ UNCHANGED <<opt_vars, mt_vars, ord_vars, stk_vars>>
    \/ evolve_return /\ UNCHANGED <<opt_vars, mt_vars, ord_vars, stk_vars>>

SpecSelect == InitSelect /\ [][SelectNext]_vars

InitOpt == OptInit /\ GAIdle /\ MetricsIdle /\ OrderIdle /\ StockIdle

SpecOpt == InitOpt /\ [][OptNext]_vars

MetricsNext ==
    \/ calculate_metrics_begin /\ UNCHANGED <<ga_vars, opt_vars, ord_vars, stk_vars>>
    \/ calculate_metrics_step /\ UNCHANGED <<ga_vars, opt_vars, ord_vars, stk_vars>>
    \/ calculate_metrics_return /\ UNCHANGED <<ga_vars, opt_vars, ord_vars, stk_vars>>
    \/ profit_factor /\ UNCHANGED <<ga_vars, opt_vars, ord_vars, stk_vars>>
    \/ calculation_function /\ UNCHANGED <<ga_vars, opt_vars, ord_vars, stk_vars>>

InitMetrics == MetricsInit /\ GAIdle /\ OptIdle /\ OrderIdle /\ StockIdle

SpecMetrics == InitMetrics /\ [][MetricsNext]_vars

OrderNext ==
    \/ update_status /\ UNCHANGED <<ga_vars, opt_vars, mt_vars, stk_vars>>

InitOrder == OrderInit /\ GAIdle /\ OptIdle /\ MetricsIdle /\ StockIdle

SpecOrder == InitOrder /\ [][OrderNext]_vars

StockNext ==
    \/ Stock_init /\ UNCHANGED <<ga_vars, opt_vars, mt_vars, ord_vars>>
    \/ add_price_data /\ UNCHANGED <<ga_vars, opt_vars, mt_vars, ord_vars>>
    \/ fetch_data_from_yahoo /\ UNCHANGED <<ga_vars, opt_vars, mt_vars, ord_vars>>
    \/ save_to_db /\ UNCHANGED <<ga_vars, opt_vars, mt_vars, ord_vars>>
    \/ load_saved /\ UNCHANGED <<ga_vars, opt_vars, mt_vars, ord_vars>>

InitStock == StockInit /\ GAIdle /\ OptIdle /\ MetricsIdle /\ OrderIdle

SpecStock == InitStock /\ [][StockNext]_vars

\* The save/load round trip is examined on a stock whose history comes from
\* add_price_data alone: the constructor, add_price_data, save_to_db and the
\* construction of a second instance for the same symbol.
RoundTripNext ==
    \/ Stock_init /\ UNCHANGED <<ga_vars, opt_vars, mt_vars, ord_vars>>
    \/ add_price_data /\ UNCHANGED <<ga_vars, opt_vars, mt_vars, ord_vars>>
    \/ save_to_db /\ UNCHANGED <<ga_vars, opt_vars, mt_vars, ord_vars>>
    \/ load_saved /\ UNCHANGED <<ga_vars, opt_vars, mt_vars, ord_vars>>

SpecRoundTrip == InitStock /\ [][RoundTripNext]_vars

(***************************************************************************)
(* Properties of GeneticStrategy.evolve.                                   *)
(***************************************************************************)
GAInEvolve == ga_pc # "constructed"

\* A step of evolve: each of them moves ga_pc, a call of set_parameters
\* leaves it.
EvolveStep == ga_pc' # ga_pc

\* Nothing was assigned from outside since evolve returned.
Untouched == set_calls = 0

\* The population of generation 0 is the one initialize_population left:
\* the hook has filled it with population_size individuals.
HookFilled == (generation = 0) => Len(population) = population_size

\* The exceptions of the hooks, and the TypeError that follows from a hook
\* that returned None.
HookFailures == {"initialize", "fitness", "crossover", "mutate", "type"}

\* The class implements evaluate_fitness: every score is a number.
Scoring == ~InheritsPassHooks(strategy_class)

\* mutate is being handed a member of the current population itself: the
\* child taken by the clone branch is that member (line 101), and the step
\* either puts mutate's return value in its place (line 105) or leaves evolve
\* by mutate's exception.
MutateHandedMember ==
    /\ ga_pc = "mutation"
    /\ child_alias # 0
    /\ \/ ga_pc' = "raised" /\ ga_failure' = "mutate"
       \/ ga_pc' = "fill" /\ aliases'[Len(aliases')] = 0

\* C1: once initialize_population has filled the population with
\* population_size individuals, and elite_size <= population_size, the
\* population holds exactly population_size individuals at the start of every
\* generation, after every reproduction step and anywhere in between.
C1_PopulationSize ==
    (GAInEvolve /\ Untouched /\ HookFilled /\ elite_size <= population_size)
        => Len(population) = population_size

\* Witness of C1: a reproduction step has replaced the population, which was
\* built from elites and from bred children.
C1_Witness ==
    /\ ga_pc = "loop"
    /\ generation >= 1
    /\ elite_size >= 1
    /\ elite_size < population_size
    /\ Len(population) = population_size

\* The indices the elitism step took from the current population.
EliteIndices == {sorted_indices[i] : i \in 1..elite_size}

\* C2: when the new population replaces generation g, its first elite_size
\* members are members of generation g, the very individuals the elitism
\* step took, and no member of generation g that was left out has a higher
\* fitness than any of them; they are unmodified: none of them is the output
\* of crossover or of mutate, and none of them is handed to mutate during
\* the reproduction step.
C2_Elitism ==
    [][ /\ (ga_pc = "fill" /\ ga_pc' = "loop") =>
              /\ Len(population') >= elite_size
              /\ Cardinality(EliteIndices) = elite_size
              /\ EliteIndices \subseteq DOMAIN population
              /\ \A i \in 1..elite_size :
                    /\ population'[i] = population[sorted_indices[i]]
                    /\ aliases[i] = sorted_indices[i]
                    /\ \A j \in (DOMAIN population) \ EliteIndices :
                          evaluate_fitness(strategy_class, population[j])
                              <= evaluate_fitness(strategy_class, population'[i])
        /\ MutateHandedMember => child_alias \notin EliteIndices
      ]_vars

\* C3: during evolve fitness_history only grows by appending, one entry (the
\* mean fitness of the population just scored) per evaluated generation; it
\* holds one entry per generation on top of those evolve found, and so
\* exactly `generations` entries when evolve returns on an optimizer whose
\* history was empty.
C3_HistoryAppendOnly ==
    /\ [][ EvolveStep =>
             \/ fitness_history' = fitness_history
             \/ /\ ga_pc = "loop"
                /\ ga_pc' = "evaluated"
                /\ fitness_history' =
                      Append(fitness_history,
                             << SeqSum([i \in DOMAIN population |->
                                           evaluate_fitness(strategy_class, population[i])]),
                                Len(population) >>)
       ]_vars
    /\ []((ga_pc \in {"loop", "terminated"} /\ Untouched) =>
             Len(fitness_history) = Len(entry_history) + generation)
    /\ []((ga_pc = "terminated" /\ Untouched /\ entry_history = <<>>) =>
             Len(fitness_history) = generations)

\* Witness of C3: evolve has returned after two generations with two entries.
C3_Witness ==
    /\ ga_pc = "terminated"
    /\ Untouched
    /\ entry_history = <<>>
    /\ generations >= 2
    /\ Len(fitness_history) = generations

\* C4: with a fitness function that returns numbers, after each evaluation
\* best_individual is at least as fit as every individual scored so far, its
\* fitness never decreases during evolve, and it stays even when its
\* generation has been replaced.
C4_BestEver ==
    /\ []((GAInEvolve /\ Untouched /\ Scoring
              /\ ~(ga_pc = "raised" /\ ga_failure = "fitness")) =>
             /\ evaluated # {} => best_individual # <<>>
             /\ best_individual # <<>> =>
                   /\ \/ best_individual = entry_best
                      \/ best_individual[1] \in evaluated
                   /\ \A x \in evaluated :
                         evaluate_fitness(strategy_class, x)
                             <= evaluate_fitness(strategy_class,
                                                 best_individual[1]))
    /\ [][ (EvolveStep /\ Scoring /\ best_individual # <<>>) =>
              /\ best_individual' # <<>>
              /\ evaluate_fitness(strategy_class, best_individual'[1])
                     >= evaluate_fitness(strategy_class, best_individual[1])
       ]_vars

\* Witness of C4: a later generation has been scored and the best-ever
\* individual is no longer a member of the current population.
C4_Witness ==
    /\ ga_pc = "evaluated"
    /\ generation >= 1
    /\ entry_best = <<>>
    /\ best_individual # <<>>
    /\ \A i \in DOMAIN population : population[i] # best_individual[1]

(***************************************************************************)
(* Properties of the trial-based optimizers.                               *)
(***************************************************************************)
OptStudyExists == opt_pc \in {"study", "run", "score", "returned", "raised"}

HigherIsBetter(name) == OPTIMIZATION_OBJECTIVES[name].higher_is_better

\* The worst value under a direction.
WorstValue(dir) == IF dir = "maximize" THEN NegInf ELSE PosInf

\* C5: in the single-objective optimizer a trial whose run failed carries the
\* worst value of the configured direction, and it is not the best trial of
\* a study that has a successful trial.
C5_FailedTrialWorst ==
    (opt_kind = "single" /\ trials # <<>>) =>
        /\ \A i \in DOMAIN trials :
              trials[i].run_failed =>
                  trials[i].values = <<WorstValue(directions[1])>>
        /\ (\E i \in DOMAIN trials : ~trials[i].run_failed) =>
              ~trials[BestTrial(trials, directions[1])].run_failed

\* C6: no failure of a trial's strategy run or of its scoring leaves
\* optimize.
C6_FailureIsolated ==
    ~(opt_pc = "raised" /\ failure \in {"run", "score"})

\* The trial at index b is the best of the study under dir, and the earliest
\* of the best.
IsEarliestBest(b, dir) ==
    /\ b \in DOMAIN trials
    /\ \A j \in DOMAIN trials :
          IF dir = "maximize"
          THEN ~Less(trials[b].values[1], trials[j].values[1])
          ELSE ~Less(trials[j].values[1], trials[b].values[1])
    /\ \A j \in DOMAIN trials :
          j < b => trials[j].values[1] # trials[b].values[1]

\* C7: every single-objective optimize that returns, having run at least one
\* trial and none that failed, hands back the best trial under the
\* configured direction (the earliest among equals) together with metrics
\* recomputed from a run with that trial's parameters.
C7_Original ==
    (opt_pc = "returned" /\ opt_kind \in {"single", "legacy"} /\ trials # <<>>
        /\ \A i \in DOMAIN trials : ~trials[i].run_failed) =>
        \E b \in DOMAIN trials :
            /\ IsEarliestBest(b, directions[1])
            /\ result.metrics_from = <<trials[b].params>>

\* The constructor arguments C8 is about.
BadObjectiveArguments ==
    \/ /\ opt_kind = "multi"
       /\ \/ arg_objectives = <<>>
          \/ \E i \in DOMAIN arg_objectives :
                arg_objectives[i] \notin DOMAIN OPTIMIZATION_OBJECTIVES
    \/ /\ opt_kind = "single"
       /\ arg_objectives[1] \notin DOMAIN OPTIMIZATION_OBJECTIVES

\* C8: with an empty objective list or a name outside the catalog the
\* constructors of optimization.py raise; no optimizer exists, no strategy
\* instance is created and no trial is run.
C8_BadObjectivesRejected ==
    BadObjectiveArguments =>
        /\ opt_pc \in {"new", "ctor_raised"}
        /\ instances = 0
        /\ trials = <<>>
        /\ trial_params = <<>>
        /\ directions = <<>>

\* Witness of C8: MultiObjectiveOptimizer has raised on a list whose first
\* name is in the catalog and whose second is not.
C8_Witness ==
    /\ opt_pc = "ctor_raised"
    /\ opt_kind = "multi"
    /\ Len(arg_objectives) = 2
    /\ arg_objectives[1] \in DOMAIN OPTIMIZATION_OBJECTIVES
    /\ arg_objectives[2] \notin DOMAIN OPTIMIZATION_OBJECTIVES

\* C9: in the single-objective optimizer a direction that contradicts the
\* polarity of the objective is rejected before any trial runs.
C9_DirectionMismatchRejected ==
    (/\ opt_kind = "single"
     /\ opt_pc \notin {"new", "ctor_raised"}
     /\ (arg_direction = "maximize") # HigherIsBetter(objective_name))
        => /\ opt_pc \notin {"run", "score"}
           /\ trials = <<>>
           /\ instances = 0

\* C10: the study of MultiObjectiveOptimizer has one direction per objective,
\* in the order of the objectives, maximize for a higher-is-better objective
\* and minimize for the others.
C10_Directions ==
    (opt_kind = "multi" /\ OptStudyExists) =>
        /\ Len(directions) = Len(objectives)
        /\ objectives = arg_objectives
        /\ \A i \in DOMAIN objectives :
              \/ directions[i] = "maximize" /\ HigherIsBetter(objectives[i])
              \/ directions[i] = "minimize" /\ ~HigherIsBetter(objectives[i])
        /\ objectives = <<"sharpe_ratio", "max_drawdown">>
              => directions = <<"maximize", "minimize">>

\* Witness of C10: a study created for [sharpe_ratio, max_drawdown].
C10_Witness ==
    /\ opt_kind = "multi"
    /\ opt_pc = "study"
    /\ objectives = <<"sharpe_ratio", "max_drawdown">>
    /\ directions = <<"maximize", "minimize">>

\* C11: in the multi-objective optimizer a trial whose run failed carries, for
\* each objective, the worst value of that objective's own direction, so it is
\* better than no successful trial on any objective.
C11_MultiFailedWorst ==
    (opt_kind = "multi" /\ trials # <<>>) =>
        \A i \in DOMAIN trials :
            trials[i].run_failed =>
                /\ Len(trials[i].values) = Len(directions)
                /\ \A k \in DOMAIN directions :
                      /\ trials[i].values[k] = WorstValue(directions[k])
                      /\ \A j \in DOMAIN trials :
                            ~trials[j].run_failed =>
                                ~Better(trials[i].values[k],
                                        trials[j].values[k], directions[k])

(***************************************************************************)
(* Error handling of GeneticStrategy.                                      *)
(***************************************************************************)

\* C12: under a configuration with elite_size > population_size no
\* individual is ever scored and no generation is bred: the configuration
\* is rejected before the first evaluation, the history and the best
\* individual staying as evolve found them.
C12_EliteSizeRejected ==
    (elite_size > population_size /\ Untouched) =>
        /\ evaluated = {}
        /\ fitness_scores = <<>>
        /\ new_population = <<>>
        /\ GAInEvolve =>
              /\ fitness_history = entry_history
              /\ best_individual = entry_best

\* C13: an exception of evaluate_fitness never leaves evolve.
C13_FitnessFailureIsolated ==
    ~(ga_pc = "raised" /\ ga_failure = "fitness")

(***************************************************************************)
(* Properties of the metric computation.                                   *)
(***************************************************************************)

\* The requested metrics are all in the registry and the checks ahead of the
\* loop have passed.
MetricsLoopEntered ==
    /\ mt_pc \in {"loop", "returned", "raised"}
    /\ mt_error \notin {"ValueError: not run", "KeyError: Close",
                        "ValueError: unknown metric"}
    /\ \A i \in DOMAIN metrics_list : metrics_list[i] \in DOMAIN AVAILABLE_METRICS

LacksField(name) == AVAILABLE_METRICS[name].requires_columns \ data_columns # {}

\* C14: when calculate_metrics is asked for several registry metrics and the
\* frame lacks a column one of them needs, the call still returns, and every
\* requested metric whose columns are all present is in the returned dict
\* with a computed value, wherever it stands in the list.
C14_MissingFieldIsolated ==
    (/\ MetricsLoopEntered
     /\ mt_pc \in {"returned", "raised"}
     /\ \E i \in DOMAIN metrics_list : LacksField(metrics_list[i])
     /\ \E i \in DOMAIN metrics_list : ~LacksField(metrics_list[i]))
        => /\ mt_pc = "returned"
           /\ \A i \in DOMAIN metrics_list :
                 ~LacksField(metrics_list[i]) =>
                     /\ metrics_list[i] \in DOMAIN metrics_returned[1]
                     /\ metrics_returned[1][metrics_list[i]] # <<>>

\* The catalog entry `name` targets a metric of the registry that has the
\* entry's polarity.
TargetsMetricOfSamePolarity(name) ==
    LET objective == OPTIMIZATION_OBJECTIVES[name]
    IN /\ objective.metric_name \in DOMAIN AVAILABLE_METRICS
       /\ AVAILABLE_METRICS[objective.metric_name].higher_is_better
              = <<objective.higher_is_better>>

\* C15: every entry of the objective catalog targets a metric name of the
\* registry, and its higher_is_better equals that metric's; in particular
\* this holds of every objective an optimizer has been constructed with.
C15_CatalogPolarity ==
    /\ \A name \in DOMAIN OPTIMIZATION_OBJECTIVES :
          TargetsMetricOfSamePolarity(name)
    /\ (opt_kind \in {"single", "multi"} /\ opt_pc \notin {"new", "ctor_raised"}) =>
          /\ objective_name \in DOMAIN OPTIMIZATION_OBJECTIVES
          /\ TargetsMetricOfSamePolarity(objective_name)
          /\ \A i \in DOMAIN objectives :
                TargetsMetricOfSamePolarity(objectives[i])

\* Witness of C15: an optimizer constructed for max_drawdown, the catalog
\* entry and registry metric that are both lower-is-better.
C15_Witness ==
    /\ opt_kind = "single"
    /\ opt_pc = "constructed"
    /\ objective_name = "max_drawdown"
    /\ ~OPTIMIZATION_OBJECTIVES[objective_name].higher_is_better
    /\ AVAILABLE_METRICS[objective_name].higher_is_better = <<FALSE>>

\* C16: for every per-trade return series whose negative entries sum to zero
\* (no trades at all, or gains only, of any size) the profit factor is
\* positive infinity, for the registry's calculate_profit_factor as for
\* Metrics.calculate_profit_factor.
C16_ProfitFactorInfinite ==
    (/\ mt_pc = "profit"
     /\ "trade_returns" \in data_columns
     /\ SumNegative(trade_returns) = 0) =>
        /\ profit_factor_df = <<PosInf>>
        /\ profit_factor_series = <<PosInf>>

(***************************************************************************)
(* Properties of Order.                                                    *)
(***************************************************************************)

\* C17: update_status(s, price, quantity) always sets status to s.  When s is
\* FILLED it stamps filled_at and takes over a supplied price and a supplied
\* quantity (an argument left out keeps the old value); for every other s
\* it leaves filled_at, filled_price and filled_quantity as they were.
C17_UpdateStatusFrame ==
    [][ update_count' # update_count =>
          LET call == update_args'[1]
          IN /\ status' = call.new_status
             /\ IF call.new_status = "FILLED"
                THEN /\ filled_at' # <<>>
                     /\ filled_price' = IF call.filled_price # <<>>
                                        THEN call.filled_price ELSE filled_price
                     /\ filled_quantity' = IF call.filled_quantity # <<>>
                                           THEN call.filled_quantity[1]
                                           ELSE filled_quantity
                ELSE /\ filled_at' = filled_at
                     /\ filled_price' = filled_price
                     /\ filled_quantity' = filled_quantity
      ]_vars

\* Witness of C17: an order created PENDING was cancelled by a call that
\* supplied a price and a quantity, and still has no fill information.
C17_Witness ==
    /\ created_status = "PENDING"
    /\ update_count = 1
    /\ status = "CANCELLED"
    /\ update_args[1].filled_price # <<>>
    /\ update_args[1].filled_quantity = <<1>>
    /\ filled_at = <<>>
    /\ filled_price = <<>>
    /\ filled_quantity = 0

\* C18: whatever status the updates have led to, is_active holds exactly for
\* PENDING and is_complete exactly for FILLED and CANCELLED; never both; a
\* REJECTED order is neither.
C18_ActiveComplete ==
    status \in OrderStatus =>
        /\ is_active <=> status = "PENDING"
        /\ is_complete <=> status \in {"FILLED", "CANCELLED"}
        /\ ~(is_active /\ is_complete)
        /\ status = "REJECTED" => (~is_active /\ ~is_complete)

\* Witness of C18: an order that was filled and then rejected.
C18_Witness ==
    /\ update_count >= 2
    /\ status = "REJECTED"
    /\ filled_at # <<>>
    /\ ~is_active
    /\ ~is_complete

(***************************************************************************)
(* Properties of Stock persistence.                                        *)
(***************************************************************************)

\* C19: the stock loaded after a save that returned has the name, the
\* exchange and the price history (length, timestamps, open and close values)
\* of the stock that was saved.
C19_Original ==
    stk_pc = "loaded" =>
        LET saved == stock[1]
            loaded == loaded_stock[1]
        IN /\ loaded.name = saved.name
           /\ loaded.exchange = saved.exchange
           /\ Len(loaded.price_history) = Len(saved.price_history)
           /\ \A i \in DOMAIN saved.price_history :
                 /\ loaded.price_history[i].timestamp
                        = saved.price_history[i].timestamp
                 /\ loaded.price_history[i].open = saved.price_history[i].open
                 /\ loaded.price_history[i].close = saved.price_history[i].close

(***************************************************************************)
(* Phases and termination of GeneticStrategy.evolve.                       *)
(***************************************************************************)

\* C20: under a configuration with at least one individual and
\* elite_size <= population_size, with hooks that return and an
\* initialize_population that fills the population, evolve goes
\* Uninitialized -> Populated -> (Evaluated -> Reproduced)* -> Terminated
\* whatever the random choices are: it never leaves by an exception, a
\* reproduction step works on the scores of the population it replaces, the
\* fill loop never overshoots, and evolve returns after exactly
\* `generations` rounds.
C20_PhaseOrder ==
    (population_size >= 1 /\ elite_size <= population_size /\ Untouched
        /\ ga_failure \notin HookFailures
        /\ (GAInEvolve => HookFilled)) =>
        /\ ga_pc # "raised"
        /\ ga_pc = "constructed" => evaluated = {}
        /\ ga_pc \in {"evaluated", "fill", "select", "crossover", "mutation"} =>
              /\ generation < generations
              /\ fitness_scores =
                    [i \in DOMAIN population |->
                        evaluate_fitness(strategy_class, population[i])]
              /\ Len(fitness_history) = Len(entry_history) + generation + 1
              /\ Len(new_population) <= population_size
        /\ ga_pc = "terminated" =>
              /\ generation = generations
              /\ Len(fitness_history) = Len(entry_history) + generations

(***************************************************************************)
(* Tournament selection.                                                   *)
(***************************************************************************)

\* The contestants of the tournament drawn last.
Contestants == {population[tournament[k]] : k \in DOMAIN tournament}

\* A member whose fitness is strictly higher than that of every other member.
Dominant(i) ==
    \A j \in (DOMAIN population) \ {i} :
        evaluate_fitness(strategy_class, population[j])
            < evaluate_fitness(strategy_class, population[i])

\* C21: select_parents returns exactly two parents; each is a member of the
\* current population that took part in the tournament of 3 drawn for its
\* slot and no contestant of that tournament is fitter; a member that is
\* strictly fitter than all others wins every tournament it takes part in.
C21_TournamentWinners ==
    (ga_pc \in {"select", "crossover"}) =>
        /\ Len(parents) = (IF ga_pc = "select" THEN 1 ELSE NumParents)
        /\ \A k \in DOMAIN parents : parents[k] \in Range(population)
        /\ tournament \in [1..TournamentSize -> DOMAIN population]
        /\ LET winner == parents[Len(parents)]
           IN /\ winner \in Contestants
              /\ \A x \in Contestants :
                    evaluate_fitness(strategy_class, x)
                        <= evaluate_fitness(strategy_class, winner)
              /\ \A k \in DOMAIN tournament :
                    Dominant(tournament[k]) => winner = population[tournament[k]]

\* Witness of C21: select_parents has returned; the second tournament left a
\* member out, held the dominant member together with two equally fit
\* others, and the dominant member, drawn last, won it.
C21_Witness ==
    /\ ga_pc = "crossover"
    /\ Len(parents) = NumParents
    /\ Len(population) > TournamentSize
    /\ Dominant(tournament[TournamentSize])
    /\ parents[NumParents] = population[tournament[TournamentSize]]
    /\ population[tournament[1]] # population[tournament[2]]

\* C22: tournament selection is defined for every non-empty population,
\* populations of 1 or 2 individuals included: drawing the 3 contestants
\* never fails while the population has a member.
C22_SelectionDefined ==
    (population # <<>>) => ~(ga_pc = "raised" /\ ga_failure = "sample")

\* C23: within one generation evaluate_fitness is invoked at most once per
\* individual of the current population: neither the best-ever comparison
\* nor a tournament invokes it again, so the invocations made since the
\* scoring of the generation began never outnumber the population.  Stated
\* for a fitness function that returns numbers without an exception, on an
\* object whose best_individual was None when evolve began.
C23_FitnessOncePerIndividual ==
    (Scoring /\ Untouched /\ entry_best = <<>> /\ ga_pc # "raised") =>
        fitness_calls <= Len(population)

\* C24: the elitism step ranks the members by descending fitness with a
\* stable sort: of two members of equal fitness the one with the lower index
\* in the population is ranked first, and the elites stand in the new
\* population in that order.
C24_StableElitism ==
    (ga_pc = "fill") =>
        /\ \A a, b \in DOMAIN sorted_indices :
              (a < b) =>
                 \/ fitness_scores[sorted_indices[a]] > fitness_scores[sorted_indices[b]]
                 \/ /\ fitness_scores[sorted_indices[a]] = fitness_scores[sorted_indices[b]]
                    /\ sorted_indices[a] < sorted_indices[b]
        /\ \A i \in 1..elite_size :
              new_population[i] = population[sorted_indices[i]]

(***************************************************************************)
(* Ownership of individuals.                                               *)
(***************************************************************************)

\* C26: in the reproduction step the child that reaches the mutation step,
\* where it is handed to mutate or appended as it is, is never (by identity)
\* a member of the current population, and every entry of the new
\* population after the elites is a new individual.
C26_NoAliasing ==
    /\ (ga_pc = "mutation") => child_alias = 0
    /\ \A k \in DOMAIN aliases : (k > elite_size) => aliases[k] = 0

(***************************************************************************)
(* The generation loop as a whole.                                         *)
(***************************************************************************)

\* C27: evolve scores `generations` populations and runs `generations`
\* reproduction steps: the k-th scoring is of the population left by k - 1
\* reproduction steps, so when evolve returns the population is the output
\* of the last reproduction step and was not scored; once a population has
\* been scored, best_individual is a member of a scored population, and it
\* changes only to an individual of strictly higher fitness.
C27_GenerationLoop ==
    /\ []((ga_pc = "terminated" /\ Untouched) =>
             /\ Len(fitness_history) = Len(entry_history) + generations
             /\ generation = generations)
    /\ []((GAInEvolve /\ Untouched /\ ga_pc # "raised" /\ evaluated # {}) =>
             /\ best_individual # <<>>
             /\ best_individual[1] \in evaluated)
    /\ [][ EvolveStep =>
           /\ (fitness_history' # fitness_history) =>
                /\ ga_pc = "loop"
                /\ generation < generations
                /\ Len(fitness_history) = Len(entry_history) + generation
                /\ Len(fitness_history') = Len(fitness_history) + 1
                /\ evaluated' = evaluated \cup Range(population)
                /\ UNCHANGED <<population, generation>>
           /\ (evaluated' # evaluated) =>
                /\ ga_pc = "loop"
                /\ generation < generations
                /\ evaluated \subseteq evaluated'
                /\ evaluated' \subseteq evaluated \cup Range(population)
                /\ UNCHANGED <<population, generation>>
           /\ (generation' # generation) =>
                /\ ga_pc = "fill"
                /\ generation' = generation + 1
                /\ Len(fitness_history) = Len(entry_history) + generation'
                /\ population' = new_population
                /\ UNCHANGED <<fitness_history, evaluated, best_individual>>
           /\ (population' # population) =>
                (ga_pc = "constructed" \/ generation' = generation + 1)
           /\ (ga_pc' = "terminated") =>
                UNCHANGED <<population, fitness_history, evaluated,
                            best_individual, generation>>
           /\ (Scoring /\ best_individual # <<>>
                  /\ best_individual' # best_individual) =>
                /\ best_individual' # <<>>
                /\ evaluate_fitness(strategy_class, best_individual'[1])
                       > evaluate_fitness(strategy_class, best_individual[1])
       ]_vars

(***************************************************************************)
(* The steps of a trial.                                                   *)
(***************************************************************************)

\* The steps of a trial as the specification orders them, all on the one
\* strategy instance s of the trial.
ClaimedSteps(s) ==
    << <<"construct", s>>, <<"sample", s>>, <<"set_parameters", s>>,
       <<"run", s>>, <<"score", s>> >>

IsPrefix(a, b) == Len(a) <= Len(b) /\ a = SubSeq(b, 1, Len(a))

\* The logs of the recorded trials, then that of the trial being evaluated.
TrialLogs ==
    [i \in 1..(Len(trials) + 1) |->
        IF i <= Len(trials) THEN trials[i].log ELSE trial_log]

InstancesOf(log) == {log[k][2] : k \in DOMAIN log}

\* C25: in every trial the strategy that receives set_parameters and run is
\* constructed inside the trial and used by no other trial, and the trial
\* proceeds in the order construct, sample the parameters from that
\* instance's declared space, set_parameters, run, score, every step on that
\* one instance.
C25_TrialOrder ==
    /\ \A i \in DOMAIN TrialLogs :
          (TrialLogs[i] # <<>>) =>
              IsPrefix(TrialLogs[i], ClaimedSteps(TrialStrategy(TrialLogs[i])))
    /\ \A i, j \in DOMAIN TrialLogs :
          (i # j) => InstancesOf(TrialLogs[i]) \cap InstancesOf(TrialLogs[j]) = {}

\* C28: every trial of MultiObjectiveOptimizer, whether its run succeeded or
\* failed, carries exactly one value per configured objective, in the order
\* of the objectives list, which is the length and order of the directions
\* of the study: the k-th value is the one found under the name of the k-th
\* objective (-inf after a failed run), and the k-th direction is that
\* objective's.
C28_ObjectiveVector ==
    (opt_kind = "multi") =>
        \A i \in DOMAIN trials :
            /\ DOMAIN trials[i].values = DOMAIN objectives
            /\ DOMAIN trials[i].values = DOMAIN directions
            /\ \A k \in DOMAIN objectives :
                  /\ trials[i].values[k] =
                        IF trials[i].run_failed THEN NegInf
                        ELSE MetricsGet(trials[i].metrics, objectives[k])
                  /\ directions[k] =
                        IF HigherIsBetter(objectives[k]) THEN "maximize"
                        ELSE "minimize"

\* Witness of C28: a study over [sharpe_ratio, max_drawdown] holding a trial
\* whose run failed and a trial whose two objectives scored differently.
C28_Witness ==
    /\ opt_kind = "multi"
    /\ objectives = <<"sharpe_ratio", "max_drawdown">>
    /\ Len(trials) = 2
    /\ trials[1].run_failed
    /\ ~trials[2].run_failed
    /\ trials[2].values = <<Fin(0), Fin(1)>>
    /\ trials[2].metrics["max_drawdown"] = Fin(1)

(***************************************************************************)
(* The fill time of an Order.                                              *)
(***************************************************************************)

\* C29: for an order created PENDING with filled_at = None and changed only
\* by update_status, status = FILLED implies that filled_at is set, and
\* filled_at, once set, is never cleared by a later update_status, whatever
\* status it moves the order to.
C29_FilledAtKept ==
    /\ []((created_status = "PENDING" /\ status = "FILLED") => filled_at # <<>>)
    /\ [][ (filled_at # <<>>) => (filled_at' # <<>>) ]_vars

\* Witness of C29: an order created PENDING was filled, then moved on, and
\* is PENDING again with its fill time still set.
C29_Witness ==
    /\ created_status = "PENDING"
    /\ status = "PENDING"
    /\ update_count = MaxUpdates
    /\ filled_at # <<>>
    /\ filled_at[1] < now

\* The rows of table stocks that carry the symbol of the stock.
RecordsOfSymbol == {i \in DOMAIN db_stocks : db_stocks[i].symbol = stock[1].symbol}

\* C30: after n >= 1 consecutive save_to_db calls on a stock whose history
\* did not change in between, the store holds exactly one stocks row for
\* the symbol and exactly one price row per point of the history, in the
\* order of the history, and a stock loaded afterwards has a history of
\* that length.
C30_SaveIdempotent ==
    (consecutive_saves >= 1) =>
        LET s == stock[1]
            rows == PricesOf(db_prices, s.db_id)
        IN /\ Cardinality(RecordsOfSymbol) = 1
           /\ RecordsOfSymbol = {s.db_id}
           /\ Len(rows) = Len(s.price_history)
           /\ \A k \in DOMAIN rows :
                 rows[k] = RowsOf(s.price_history, s.db_id)[k]
           /\ (stk_pc = "loaded") =>
                 Len(loaded_stock[1].price_history) = Len(s.price_history)

\* Witness of C30: a stock with a full history was saved twice in a row and
\* loaded afterwards.
C30_Witness ==
    /\ stk_pc = "loaded"
    /\ consecutive_saves = MaxSaves
    /\ Len(stock[1].price_history) = MaxHistory
    /\ Len(loaded_stock[1].price_history) = MaxHistory
    /\ Len(PricesOf(db_prices, stock[1].db_id)) = MaxHistory
====
